---- MODULE Spec2Model ----
(***************************************************************************)
(* Model of the reconciler of apprun-dedicated-provisioner: CreatePlan     *)
(* (planASGChanges, planLBChanges, planUpdate/compareVersion) and Apply    *)
(* (LB/ASG delete and create loops, createApplication, updateApplication, *)
(* the secret version ledger) against a gateway that may fail any call.   *)
(***************************************************************************)
EXTENDS Integers, Sequences, FiniteSets, TLC

VARIABLES
    cfg,          \* config.ClusterConfig: AutoScalingGroups, LoadBalancers, Applications
    activate,     \* ApplyOptions.Activate
    asgs,         \* gateway: live AutoScalingGroups (set of ReadAutoScalingGroupDetail)
    lbs,          \* gateway: live LoadBalancers (set of ReadLoadBalancerDetail + owning ASG id)
    apps,         \* gateway: live Applications (set of [ApplicationID, Name, ActiveVersion, Versions])
    nextID,       \* gateway: next identifier it assigns
    st,           \* Provisioner.state: the in-memory ledger (state.State.Applications)
    disk,         \* the ledger as last written by State.Save
    plan,         \* the Plan returned by CreatePlan
    warnings,     \* names logged by CreatePlan as "exists in AppRun but not in config"
    pc,           \* position of the run
    idx,          \* index of the next action of the current Apply loop
    asgNameToID,  \* Apply: ASG name -> id map handed to applyLBChanges
    existingByName, \* Apply: applications listed at the start of Apply
    stateModified,  \* Apply: local stateModified
    log,          \* gateway calls issued by Apply since the last CreatePlan, in order
    saves,        \* number of State.Save calls of the current Apply
    runs,         \* number of CreatePlan invocations so far
    live0,        \* gateway state and ledger the last CreatePlan read
    planLog,      \* gateway operations issued by the last CreatePlan, in order
    wait,         \* waitForASGDeletion: position, elapsed seconds, last fetch, result
    ledgerOp,     \* the last operation applied to the ledger on its own
    resolve       \* resolveClusterID: position, cluster name, pages listed, calls, error

vars == <<cfg, activate, asgs, lbs, apps, nextID, st, disk, plan, warnings, pc, idx,
          asgNameToID, existingByName, stateModified, log, saves, runs, live0, planLog, wait, ledgerOp,
          resolve>>

----------------------------------------------------------------------------
(* Bounds *)

\* number of plan/apply cycles the operator runs
MaxRuns == 2

----------------------------------------------------------------------------
(* Generic helpers *)

Cond(b, x) == IF b THEN <<x>> ELSE <<>>

RECURSIVE Flatten(_)
Flatten(ss) == IF ss = <<>> THEN <<>> ELSE Head(ss) \o Flatten(Tail(ss))

Range(s) == {s[i] : i \in DOMAIN s}

\* all orderings of a finite set, as sequences
Perms(S) == {p \in [1..Cardinality(S) -> S] : \A x \in S : \E i \in DOMAIN p : p[i] = x}

\* the elements of sequence s that satisfy Test, in order
RECURSIVE SelectSeqBy(_, _)
SelectSeqBy(s, T) ==
    IF s = <<>> THEN <<>>
    ELSE (IF Head(s) \in T THEN <<Head(s)>> ELSE <<>>) \o SelectSeqBy(Tail(s), T)

\* Go optional values (ogen OptX / NilX, and pointers of the config structs)
Opt(v) == [Set |-> TRUE, Value |-> v]
NoInt == [Set |-> FALSE, Value |-> 0]
NoStr == [Set |-> FALSE, Value |-> ""]

----------------------------------------------------------------------------
(* AutoScalingGroup planning: src/provisioner/autoscaling.go *)

\* map[int16]X built by "for _, iface := range s { m[iface.InterfaceIndex] = iface }"
ByIdx(s) ==
    [k \in {s[i].InterfaceIndex : i \in DOMAIN s} |->
        s[CHOOSE i \in DOMAIN s : /\ s[i].InterfaceIndex = k
                                  /\ \A j \in DOMAIN s : s[j].InterfaceIndex = k => j <= i]]

compareIPPools(current, desired) ==
    /\ Len(current) = Len(desired)
    /\ \A i \in DOMAIN current :
          current[i].Start = desired[i].Start /\ current[i].End = desired[i].End

compareNameServers(current, desired) ==
    /\ Len(current) = Len(desired)
    /\ \A i \in DOMAIN current : current[i] = desired[i]

OptOr(o, dflt) == IF o.Set THEN o.Value ELSE dflt

\* the body of the loop over desiredByIdx for one interface index
asgInterfaceChanges(currentByIdx, desiredIface, i) ==
    IF i \notin DOMAIN currentByIdx THEN << <<"Interface", i, "new interface">> >>
    ELSE LET c == currentByIdx[i]
             d == desiredIface
         IN   Cond(c.Upstream # d.Upstream, <<"Interface.Upstream", i, c.Upstream, d.Upstream>>)
           \o Cond(c.ConnectsToLB # d.ConnectsToLB, <<"Interface.ConnectsToLB", i, c.ConnectsToLB, d.ConnectsToLB>>)
           \o Cond(OptOr(c.NetmaskLen, 0) # OptOr(d.NetmaskLen, 0),
                   <<"Interface.NetmaskLen", i, OptOr(c.NetmaskLen, 0), OptOr(d.NetmaskLen, 0)>>)
           \o Cond(OptOr(c.DefaultGateway, "") # OptOr(d.DefaultGateway, ""),
                   <<"Interface.DefaultGateway", i, OptOr(c.DefaultGateway, ""), OptOr(d.DefaultGateway, "")>>)
           \o Cond(OptOr(c.PacketFilterID, "") # OptOr(d.PacketFilterID, ""),
                   <<"Interface.PacketFilterID", i, OptOr(c.PacketFilterID, ""), OptOr(d.PacketFilterID, "")>>)
           \o Cond(~compareIPPools(c.IpPool, d.IpPool), <<"Interface.IpPool", i, "changed">>)

\* ord: the order in which Go iterates the map desiredByIdx
compareASGInterfaces(current, desired, ord) ==
    IF Len(current) # Len(desired)
    THEN << <<"Interfaces count", Len(current), Len(desired)>> >>
    ELSE LET currentByIdx == ByIdx(current)
             desiredByIdx == ByIdx(desired)
             keys == SelectSeqBy(ord, DOMAIN desiredByIdx)
         IN Flatten([k \in DOMAIN keys |->
                        asgInterfaceChanges(currentByIdx, desiredByIdx[keys[k]], keys[k])])

\* a comparison that forgets the interfaces
compareASGWithoutInterfaces(current, desired, ord) ==
       Cond(current.Zone # desired.Zone, <<"Zone", current.Zone, desired.Zone>>)
    \o Cond(current.WorkerServiceClassPath # desired.WorkerServiceClassPath,
            <<"WorkerServiceClassPath", current.WorkerServiceClassPath, desired.WorkerServiceClassPath>>)
    \o Cond(current.MinNodes # desired.MinNodes, <<"MinNodes", current.MinNodes, desired.MinNodes>>)
    \o Cond(current.MaxNodes # desired.MaxNodes, <<"MaxNodes", current.MaxNodes, desired.MaxNodes>>)
    \o Cond(~compareNameServers(current.NameServers, desired.NameServers),
            <<"NameServers", current.NameServers, desired.NameServers>>)

compareASG(current, desired, ord) ==
       Cond(current.Zone # desired.Zone, <<"Zone", current.Zone, desired.Zone>>)
    \o Cond(current.WorkerServiceClassPath # desired.WorkerServiceClassPath,
            <<"WorkerServiceClassPath", current.WorkerServiceClassPath, desired.WorkerServiceClassPath>>)
    \o Cond(current.MinNodes # desired.MinNodes, <<"MinNodes", current.MinNodes, desired.MinNodes>>)
    \o Cond(current.MaxNodes # desired.MaxNodes, <<"MaxNodes", current.MaxNodes, desired.MaxNodes>>)
    \o Cond(~compareNameServers(current.NameServers, desired.NameServers),
            <<"NameServers", current.NameServers, desired.NameServers>>)
    \o compareASGInterfaces(current.Interfaces, desired.Interfaces, ord)

describeASGConfig(c) ==
    << <<"Zone", c.Zone>>, <<"WorkerServiceClassPath", c.WorkerServiceClassPath>>,
       <<"MinNodes, MaxNodes", c.MinNodes, c.MaxNodes>>, <<"NameServers", c.NameServers>>,
       <<"Interfaces configured", Len(c.Interfaces)>> >>

NoID == [Set |-> FALSE, Value |-> 0]

\* the action planned for one desired ASG (the body of the loop over desired)
planDesiredASG(currentASGs, d, ord) ==
    IF ~\E a \in currentASGs : a.Name = d.Name
    THEN [Action |-> "create", Name |-> d.Name, Changes |-> describeASGConfig(d), ExistingID |-> NoID]
    ELSE LET current == CHOOSE a \in currentASGs : a.Name = d.Name
             changes == compareASG(current, d, ord)
         IN IF Len(changes) > 0
            THEN [Action |-> "recreate", Name |-> d.Name, Changes |-> changes,
                  ExistingID |-> Opt(current.AutoScalingGroupID)]
            ELSE [Action |-> "noop", Name |-> d.Name, Changes |-> <<>>, ExistingID |-> NoID]

\* an orphan policy that removes what the YAML does not name
planOrphanASGAsDelete(name) ==
    [Action |-> "delete", Name |-> name, Changes |-> << <<"not in YAML, deleting">> >>, ExistingID |-> NoID]

\* the action planned for a live ASG that is not in the YAML
planOrphanASG(name) ==
    [Action |-> "skip", Name |-> name, Changes |-> << <<"not in YAML, skipping">> >>, ExistingID |-> NoID]

\* ords[i]: map order for the i-th desired ASG; orphanOrd: order of "range currentByName"
planASGChanges(currentASGs, desired, ords, orphanOrd) ==
    LET desiredNames == {desired[i].Name : i \in DOMAIN desired}
        orphans == SelectSeqBy(orphanOrd, {a.Name : a \in currentASGs} \ desiredNames)
    IN   [i \in DOMAIN desired |-> planDesiredASG(currentASGs, desired[i], ords[i])]
      \o [k \in DOMAIN orphans |-> planOrphanASG(orphans[k])]

----------------------------------------------------------------------------
(* LoadBalancer planning: src/provisioner/autoscaling.go *)

compareLBNameServers(current, desired) ==
    /\ Len(current) = Len(desired)
    /\ \A i \in DOMAIN current : current[i] = desired[i]

compareLBIPPools(current, desired) ==
    /\ Len(current) = Len(desired)
    /\ \A i \in DOMAIN current :
          current[i].Start = desired[i].Start /\ current[i].End = desired[i].End

lbInterfaceChanges(currentByIdx, desiredIface, i) ==
    IF i \notin DOMAIN currentByIdx THEN << <<"Interface", i, "new interface">> >>
    ELSE LET c == currentByIdx[i]
             d == desiredIface
         IN   Cond(c.Upstream # d.Upstream, <<"Interface.Upstream", i, c.Upstream, d.Upstream>>)
           \o Cond(OptOr(c.NetmaskLen, 0) # OptOr(d.NetmaskLen, 0),
                   <<"Interface.NetmaskLen", i, OptOr(c.NetmaskLen, 0), OptOr(d.NetmaskLen, 0)>>)
           \o Cond(OptOr(c.DefaultGateway, "") # OptOr(d.DefaultGateway, ""),
                   <<"Interface.DefaultGateway", i, OptOr(c.DefaultGateway, ""), OptOr(d.DefaultGateway, "")>>)
           \o Cond(OptOr(c.Vip, "") # OptOr(d.Vip, ""),
                   <<"Interface.Vip", i, OptOr(c.Vip, ""), OptOr(d.Vip, "")>>)
           \o Cond(OptOr(c.VirtualRouterID, 0) # OptOr(d.VirtualRouterID, 0),
                   <<"Interface.VirtualRouterID", i, OptOr(c.VirtualRouterID, 0), OptOr(d.VirtualRouterID, 0)>>)
           \o Cond(OptOr(c.PacketFilterID, "") # OptOr(d.PacketFilterID, ""),
                   <<"Interface.PacketFilterID", i, OptOr(c.PacketFilterID, ""), OptOr(d.PacketFilterID, "")>>)
           \o Cond(~compareLBIPPools(c.IpPool, d.IpPool), <<"Interface.IpPool", i, "changed">>)

compareLBInterfaces(current, desired, ord) ==
    IF Len(current) # Len(desired)
    THEN << <<"Interfaces count", Len(current), Len(desired)>> >>
    ELSE LET currentByIdx == ByIdx(current)
             desiredByIdx == ByIdx(desired)
             keys == SelectSeqBy(ord, DOMAIN desiredByIdx)
         IN Flatten([k \in DOMAIN keys |->
                        lbInterfaceChanges(currentByIdx, desiredByIdx[keys[k]], keys[k])])

compareLB(current, desired, ord) ==
       Cond(current.ServiceClassPath # desired.ServiceClassPath,
            <<"ServiceClassPath", current.ServiceClassPath, desired.ServiceClassPath>>)
    \o Cond(~compareLBNameServers(current.NameServers, desired.NameServers),
            <<"NameServers", current.NameServers, desired.NameServers>>)
    \o compareLBInterfaces(current.Interfaces, desired.Interfaces, ord)

describeLBConfig(c) ==
    << <<"AutoScalingGroup", c.AutoScalingGroupName>>, <<"ServiceClassPath", c.ServiceClassPath>>,
       <<"NameServers", c.NameServers>>, <<"Interfaces configured", Len(c.Interfaces)>> >>

\* listAllLBs: every LoadBalancer the gateway holds under one ASG id
listAllLBs(allLBs, asgID) == {l \in allLBs : l.AutoScalingGroupID = asgID}

\* the action planned for one desired LB (the body of the loop over desired)
planDesiredLB(currentASGs, allLBs, d, ord) ==
    IF ~\E a \in currentASGs : a.Name = d.AutoScalingGroupName
    THEN [Action |-> "create", Name |-> d.Name, ASGName |-> d.AutoScalingGroupName,
          Changes |-> describeLBConfig(d), ExistingID |-> NoID, ASGID |-> NoID]
    ELSE LET asgID == (CHOOSE a \in currentASGs : a.Name = d.AutoScalingGroupName).AutoScalingGroupID
             asgLBs == listAllLBs(allLBs, asgID)
         IN IF ~\E l \in asgLBs : l.Name = d.Name
            THEN [Action |-> "create", Name |-> d.Name, ASGName |-> d.AutoScalingGroupName,
                  Changes |-> describeLBConfig(d), ExistingID |-> NoID, ASGID |-> Opt(asgID)]
            ELSE LET current == CHOOSE l \in asgLBs : l.Name = d.Name
                     changes == compareLB(current, d, ord)
                 IN IF Len(changes) > 0
                    THEN [Action |-> "recreate", Name |-> d.Name, ASGName |-> d.AutoScalingGroupName,
                          Changes |-> changes, ExistingID |-> Opt(current.LoadBalancerID),
                          ASGID |-> Opt(asgID)]
                    ELSE [Action |-> "noop", Name |-> d.Name, ASGName |-> d.AutoScalingGroupName,
                          Changes |-> <<>>, ExistingID |-> NoID, ASGID |-> NoID]

\* the action planned for a live LB that is not in the YAML
planOrphanLB(lb, asgName) ==
    [Action |-> "delete", Name |-> lb.Name, ASGName |-> asgName,
     Changes |-> << <<"LB will be deleted">> >>,
     ExistingID |-> Opt(lb.LoadBalancerID), ASGID |-> Opt(lb.AutoScalingGroupID)]

\* the live LBs of ASG a that no desired LB names, in the order lbOrd of "range lbMap"
orphanLBsOf(allLBs, desired, a, lbOrd) ==
    LET mine == listAllLBs(allLBs, a.AutoScalingGroupID)
        wanted == {desired[i].Name : i \in {j \in DOMAIN desired : desired[j].AutoScalingGroupName = a.Name}}
        names == SelectSeqBy(lbOrd, {l.Name : l \in mine} \ wanted)
    IN [k \in DOMAIN names |-> planOrphanLB(CHOOSE l \in mine : l.Name = names[k], a.Name)]

\* ords[i]: map order for the i-th desired LB; asgOrd, lbOrds: orders of the two
\* nested "range" loops over currentLBs
planLBChanges(currentASGs, allLBs, desired, ords, asgOrd, lbOrds) ==
    LET liveNames == SelectSeqBy(asgOrd, {a.Name : a \in currentASGs})
    IN   [i \in DOMAIN desired |-> planDesiredLB(currentASGs, allLBs, desired[i], ords[i])]
      \o Flatten([k \in DOMAIN liveNames |->
                    orphanLBsOf(allLBs, desired,
                                CHOOSE a \in currentASGs : a.Name = liveNames[k],
                                lbOrds[liveNames[k]])])

----------------------------------------------------------------------------
(* The secret version ledger: state.State *)

NoLedger == [a \in {} |-> 0]

GetPasswordVersion(s, appName) ==
    IF appName \in DOMAIN s THEN s[appName].RegistryPasswordVersion ELSE NoInt

ensureApp(s, appName) ==
    IF appName \in DOMAIN s THEN s
    ELSE [a \in DOMAIN s \cup {appName} |->
            IF a = appName THEN [RegistryPasswordVersion |-> NoInt, SecretEnvVersions |-> NoLedger]
            ELSE s[a]]

cleanupApp(s, appName) ==
    IF /\ appName \in DOMAIN s
       /\ ~s[appName].RegistryPasswordVersion.Set
       /\ DOMAIN s[appName].SecretEnvVersions = {}
    THEN [a \in DOMAIN s \ {appName} |-> s[a]]
    ELSE s

\* a SetPasswordVersion that drops the application's entry whenever the version
\* is removed
SetPasswordVersionDroppingEntry(s, appName, version) ==
    IF version.Set
    THEN [ensureApp(s, appName) EXCEPT ![appName].RegistryPasswordVersion = version]
    ELSE [a \in DOMAIN s \ {appName} |-> s[a]]

SetPasswordVersion(s, appName, version) ==
    cleanupApp([ensureApp(s, appName) EXCEPT ![appName].RegistryPasswordVersion = version], appName)

GetSecretEnvVersion(s, appName, envKey) ==
    IF appName \in DOMAIN s /\ envKey \in DOMAIN s[appName].SecretEnvVersions
    THEN Opt(s[appName].SecretEnvVersions[envKey])
    ELSE NoInt

SetSecretEnvVersion(s, appName, envKey, version) ==
    LET e == ensureApp(s, appName)
        m == e[appName].SecretEnvVersions
        m2 == IF version.Set
              THEN [k \in DOMAIN m \cup {envKey} |-> IF k = envKey THEN version.Value ELSE m[k]]
              ELSE [k \in DOMAIN m \ {envKey} |-> m[k]]
    IN cleanupApp([e EXCEPT ![appName].SecretEnvVersions = m2], appName)

----------------------------------------------------------------------------
(* Application planning: src/provisioner/sync.go *)

\* ListApplicationVersionsParams.MaxItems of getLatestVersion
MaxItems == 30

stringSlicesEqual(a, b) ==
    /\ Len(a) = Len(b)
    /\ \A i \in DOMAIN a : a[i] = b[i]

\* map built by "for _, x := range s { m[key(x)] = x }": the last element wins
\* keys: the keys of the elements, in order
LastIndex(keys, k) ==
    CHOOSE i \in DOMAIN keys : keys[i] = k /\ \A j \in DOMAIN keys : keys[j] = k => j <= i

KeyOf(e) == e.Key
PortOf(e) == e.TargetPort

\* the changes of one desired port against the current ports
exposedPortChanges(current, d) ==
    IF ~\E i \in DOMAIN current : current[i].TargetPort = d.TargetPort
    THEN << <<"ExposedPort add", d.TargetPort>> >>
    ELSE LET c == current[LastIndex([n \in DOMAIN current |-> PortOf(current[n])], d.TargetPort)]
             t == d.TargetPort
             cHasLB == c.LoadBalancerPort.Set
             dHasLB == d.LoadBalancerPort.Set
             cLB == OptOr(c.LoadBalancerPort, 0)
             dLB == OptOr(d.LoadBalancerPort, 0)
         IN   (IF cHasLB /\ dHasLB /\ cLB # dLB THEN << <<"LoadBalancerPort", t, cLB, dLB>> >>
               ELSE IF cHasLB /\ ~dHasLB THEN << <<"LoadBalancerPort -> (unset)", t, cLB>> >>
               ELSE IF ~cHasLB /\ dHasLB THEN << <<"LoadBalancerPort (unset) ->", t, dLB>> >>
               ELSE <<>>)
           \o Cond(c.UseLetsEncrypt # d.UseLetsEncrypt, <<"UseLetsEncrypt", t, c.UseLetsEncrypt, d.UseLetsEncrypt>>)
           \o Cond(~stringSlicesEqual(c.Host, d.Host), <<"Host", t, c.Host, d.Host>>)
           \o (IF c.HealthCheck.Set /\ d.HealthCheck.Set
               THEN   Cond(c.HealthCheck.Value.Path # d.HealthCheck.Value.Path,
                           <<"HealthCheck.Path", t, c.HealthCheck.Value.Path, d.HealthCheck.Value.Path>>)
                   \o Cond(c.HealthCheck.Value.IntervalSeconds # d.HealthCheck.Value.IntervalSeconds,
                           <<"HealthCheck.IntervalSeconds", t, c.HealthCheck.Value.IntervalSeconds,
                             d.HealthCheck.Value.IntervalSeconds>>)
                   \o Cond(c.HealthCheck.Value.TimeoutSeconds # d.HealthCheck.Value.TimeoutSeconds,
                           <<"HealthCheck.TimeoutSeconds", t, c.HealthCheck.Value.TimeoutSeconds,
                             d.HealthCheck.Value.TimeoutSeconds>>)
               ELSE IF c.HealthCheck.Set /\ ~d.HealthCheck.Set THEN << <<"HealthCheck", t, "(set)", "(unset)">> >>
               ELSE IF ~c.HealthCheck.Set /\ d.HealthCheck.Set THEN << <<"HealthCheck", t, "(unset)", "(set)">> >>
               ELSE <<>>)

compareExposedPorts(current, desired) ==
       Cond(Len(current) # Len(desired), <<"ExposedPorts count", Len(current), Len(desired)>>)
    \o Flatten([i \in DOMAIN desired |-> exposedPortChanges(current, desired[i])])
    \o Flatten([i \in DOMAIN current |->
                  Cond(~\E j \in DOMAIN desired : desired[j].TargetPort = current[i].TargetPort,
                       <<"ExposedPort remove", current[i].TargetPort>>)])

\* the changes of one desired env var against the current env vars
envChanges(s, appName, current, d) ==
    IF ~\E i \in DOMAIN current : current[i].Key = d.Key
    THEN IF d.Secret THEN << <<"Env add", d.Key, "(secret)">> >>
         ELSE IF d.Value.Set THEN << <<"Env add", d.Key, d.Value.Value>> >>
         ELSE << <<"Env add", d.Key>> >>
    ELSE LET c == current[LastIndex([n \in DOMAIN current |-> KeyOf(current[n])], d.Key)]
             storedVersion == GetSecretEnvVersion(s, appName, d.Key)
         IN IF d.Secret
            THEN IF d.SecretVersion.Set
                 THEN IF ~storedVersion.Set
                      THEN << <<"Env update", d.Key, "secret version new", d.SecretVersion.Value>> >>
                      ELSE Cond(storedVersion.Value # d.SecretVersion.Value,
                                <<"Env update", d.Key, "secret version", storedVersion.Value,
                                  d.SecretVersion.Value>>)
                 ELSE <<>>
            ELSE Cond(OptOr(c.Value, "") # OptOr(d.Value, ""),
                      <<"Env update", d.Key, OptOr(c.Value, ""), OptOr(d.Value, "")>>)

compareEnv(s, appName, current, desired) ==
       Flatten([i \in DOMAIN desired |-> envChanges(s, appName, current, desired[i])])
    \o Flatten([i \in DOMAIN current |->
                  Cond(~\E j \in DOMAIN desired : desired[j].Key = current[i].Key,
                       IF current[i].Secret THEN <<"Env remove", current[i].Key, "(secret)">>
                       ELSE <<"Env remove", current[i].Key>>)])

\* a comparison that looks at the image
compareVersionByImage(s, appName, current, desired) ==
    Cond(current.Image # desired.Image, <<"Image", current.Image, desired.Image>>)

compareVersion(s, appName, current, desired) ==
    LET serverHasRegistryUser == current.RegistryUsername.Set /\ current.RegistryUsername.Value # ""
        desiredHasRegistryUser == desired.RegistryUsername.Set /\ desired.RegistryUsername.Value # ""
        storedVersion == GetPasswordVersion(s, appName)
        desiredVersion == desired.RegistryPasswordVersion
        scale(name, nameUnset, cur, des) ==
            IF ~des.Set THEN <<>>
            ELSE IF ~cur.Set THEN << <<nameUnset, des.Value>> >>
            ELSE Cond(cur.Value # des.Value, <<name, cur.Value, des.Value>>)
    IN   Cond(current.CPU # desired.CPU, <<"CPU", current.CPU, desired.CPU>>)
      \o Cond(current.Memory # desired.Memory, <<"Memory", current.Memory, desired.Memory>>)
      \o Cond(current.ScalingMode # desired.ScalingMode,
              <<"ScalingMode", current.ScalingMode, desired.ScalingMode>>)
      \o (IF desired.ScalingMode = "manual" THEN scale("FixedScale", "FixedScale (unset) ->", current.FixedScale, desired.FixedScale)
          ELSE <<>>)
      \o (IF desired.ScalingMode = "cpu"
          THEN scale("MinScale", "MinScale (unset) ->", current.MinScale, desired.MinScale)
               \o scale("MaxScale", "MaxScale (unset) ->", current.MaxScale, desired.MaxScale)
          ELSE <<>>)
      \o compareExposedPorts(current.ExposedPorts, desired.ExposedPorts)
      \o compareEnv(s, appName, current.Env, desired.Env)
      \o Cond(~stringSlicesEqual(current.Cmd, desired.Cmd), <<"Cmd", current.Cmd, desired.Cmd>>)
      \o (IF ~serverHasRegistryUser /\ desiredHasRegistryUser
          THEN << <<"RegistryUsername", "(unset)", desired.RegistryUsername.Value>> >>
          ELSE IF serverHasRegistryUser /\ ~desiredHasRegistryUser
          THEN << <<"RegistryUsername", current.RegistryUsername.Value, "(unset)">> >>
          ELSE IF /\ serverHasRegistryUser /\ desiredHasRegistryUser
                  /\ current.RegistryUsername.Value # desired.RegistryUsername.Value
          THEN << <<"RegistryUsername", current.RegistryUsername.Value, desired.RegistryUsername.Value>> >>
          ELSE <<>>)
      \o (IF desiredVersion.Set
          THEN IF ~storedVersion.Set
               THEN << <<"RegistryPasswordVersion (new) ->", desiredVersion.Value>> >>
               ELSE Cond(storedVersion.Value # desiredVersion.Value,
                         <<"RegistryPasswordVersion", storedVersion.Value, desiredVersion.Value>>)
          ELSE Cond(storedVersion.Set, <<"RegistryPasswordVersion -> (removed)", storedVersion.Value>>))

\* the page of versions that the single ListApplicationVersions call of
\* getLatestVersion returns
FirstPage(versions) == SubSeq(versions, 1, IF Len(versions) < MaxItems THEN Len(versions) ELSE MaxItems)

NoVersion == [Set |-> FALSE, Value |-> 0]

\* getLatestVersion: the version with the highest number in the listed page,
\* fetched in full; NoVersion when the application has no version
getLatestVersion(app) ==
    LET page == FirstPage(app.Versions)
    IN IF Len(page) = 0 THEN NoVersion
       ELSE LET latestVersionNum ==
                    CHOOSE n \in {page[i].Version : i \in DOMAIN page} :
                        \A i \in DOMAIN page : page[i].Version <= n
            IN Opt(CHOOSE v \in Range(app.Versions) : v.Version = latestVersionNum)

planUpdate(s, existing, appCfg) ==
    LET latestVersion == getLatestVersion(existing)
    IN IF ~latestVersion.Set
       THEN [ApplicationName |-> appCfg.Name, Action |-> "update",
             Changes |-> << <<"Create initial version (no versions exist)">> >>]
       ELSE LET changes == compareVersion(s, appCfg.Name, latestVersion.Value, appCfg.Spec)
            IN IF Len(changes) > 0
               THEN [ApplicationName |-> appCfg.Name, Action |-> "update", Changes |-> changes]
               ELSE [ApplicationName |-> appCfg.Name, Action |-> "noop", Changes |-> <<>>]

\* a Create action that lists no change
planCreateWithoutChanges(appCfg) ==
    [ApplicationName |-> appCfg.Name, Action |-> "create", Changes |-> <<>>]

planCreate(appCfg) ==
    [ApplicationName |-> appCfg.Name, Action |-> "create",
     Changes |-> << <<"Create new application and version">> >>]

\* the loop of CreatePlan over cfg.Applications; existingNames is the key set
\* of existingByName, from which every planned name is deleted
RECURSIVE planApplications(_, _, _, _)
planApplications(s, existing, existingNames, appCfgs) ==
    IF appCfgs = <<>> THEN [Actions |-> <<>>, Remaining |-> existingNames]
    ELSE LET appCfg == Head(appCfgs)
             found == appCfg.Name \in existingNames
             action == IF found
                       THEN planUpdate(s, CHOOSE a \in existing : a.Name = appCfg.Name, appCfg)
                       ELSE planCreate(appCfg)
             rest == planApplications(s, existing, existingNames \ {appCfg.Name}, Tail(appCfgs))
         IN [Actions |-> <<action>> \o rest.Actions, Remaining |-> rest.Remaining]

----------------------------------------------------------------------------
(* Requests built from the config *)

buildCreateASGRequest(c) ==
    [Name |-> c.Name, Zone |-> c.Zone, WorkerServiceClassPath |-> c.WorkerServiceClassPath,
     MinNodes |-> c.MinNodes, MaxNodes |-> c.MaxNodes, NameServers |-> c.NameServers,
     Interfaces |-> [i \in DOMAIN c.Interfaces |->
        [InterfaceIndex |-> c.Interfaces[i].InterfaceIndex, Upstream |-> c.Interfaces[i].Upstream,
         ConnectsToLB |-> c.Interfaces[i].ConnectsToLB, IpPool |-> c.Interfaces[i].IpPool,
         NetmaskLen |-> c.Interfaces[i].NetmaskLen, DefaultGateway |-> c.Interfaces[i].DefaultGateway,
         PacketFilterID |-> c.Interfaces[i].PacketFilterID]]]

buildCreateLBRequest(c) ==
    [Name |-> c.Name, ServiceClassPath |-> c.ServiceClassPath, NameServers |-> c.NameServers,
     Interfaces |-> [i \in DOMAIN c.Interfaces |->
        [InterfaceIndex |-> c.Interfaces[i].InterfaceIndex, Upstream |-> c.Interfaces[i].Upstream,
         IpPool |-> c.Interfaces[i].IpPool, NetmaskLen |-> c.Interfaces[i].NetmaskLen,
         DefaultGateway |-> c.Interfaces[i].DefaultGateway, Vip |-> c.Interfaces[i].Vip,
         VirtualRouterID |-> c.Interfaces[i].VirtualRouterID,
         PacketFilterID |-> c.Interfaces[i].PacketFilterID]]]

\* a builder that takes the image from the config
imageFromConfig(v, base) == v.Image

\* "if base != nil { req.Image = base.Image } else { req.Image = v.Image }"
inheritedImage(v, base) == IF base.Set THEN base.Value.Image ELSE v.Image

\* base: Opt(ReadApplicationVersionDetail), NoVersion for nil
buildCreateVersionRequestWithBase(v, base) ==
    LET hasBase == base.Set
        b == base.Value
        inherit(c, field) == IF c.Set THEN c ELSE IF hasBase /\ b[field].Set THEN b[field] ELSE NoInt
        userFromBase == hasBase /\ b.RegistryUsername.Value # ""
        action1 == IF v.RegistryUsername.Set THEN "new" ELSE IF userFromBase THEN "keep" ELSE "remove"
    IN [Image |-> inheritedImage(v, base),
        CPU |-> IF v.CPU # 0 THEN v.CPU ELSE IF hasBase THEN b.CPU ELSE 0,
        Memory |-> IF v.Memory # 0 THEN v.Memory ELSE IF hasBase THEN b.Memory ELSE 0,
        ScalingMode |-> IF v.ScalingMode # "" THEN v.ScalingMode ELSE IF hasBase THEN b.ScalingMode ELSE "",
        Cmd |-> IF Len(v.Cmd) > 0 THEN v.Cmd ELSE IF hasBase THEN b.Cmd ELSE <<>>,
        RegistryUsername |-> IF v.RegistryUsername.Set THEN v.RegistryUsername
                             ELSE IF userFromBase THEN Opt(b.RegistryUsername.Value) ELSE NoStr,
        RegistryPassword |-> v.RegistryPassword,
        RegistryPasswordAction |->
            IF v.RegistryPassword.Set THEN "new"
            ELSE IF hasBase /\ b.RegistryUsername.Set THEN "keep" ELSE action1,
        FixedScale |-> inherit(v.FixedScale, "FixedScale"),
        MinScale |-> inherit(v.MinScale, "MinScale"),
        MaxScale |-> inherit(v.MaxScale, "MaxScale"),
        ScaleInThreshold |-> inherit(v.ScaleInThreshold, "ScaleInThreshold"),
        ScaleOutThreshold |-> inherit(v.ScaleOutThreshold, "ScaleOutThreshold"),
        ExposedPorts |->
            IF Len(v.ExposedPorts) > 0
            THEN [i \in DOMAIN v.ExposedPorts |->
                    [TargetPort |-> v.ExposedPorts[i].TargetPort,
                     UseLetsEncrypt |-> v.ExposedPorts[i].UseLetsEncrypt,
                     Host |-> v.ExposedPorts[i].Host,
                     LoadBalancerPort |-> v.ExposedPorts[i].LoadBalancerPort,
                     HealthCheck |-> v.ExposedPorts[i].HealthCheck]]
            ELSE IF hasBase THEN b.ExposedPorts ELSE <<>>,
        Env |->
            IF Len(v.Env) > 0
            THEN [i \in DOMAIN v.Env |->
                    [Key |-> v.Env[i].Key, Secret |-> v.Env[i].Secret, Value |-> v.Env[i].Value]]
            ELSE IF hasBase
            THEN [i \in DOMAIN b.Env |->
                    [Key |-> b.Env[i].Key, Secret |-> b.Env[i].Secret,
                     Value |-> IF ~b.Env[i].Secret /\ b.Env[i].Value.Set THEN b.Env[i].Value ELSE NoStr]]
            ELSE <<>>]

\* a request for a new application that leaves the environment out
buildCreateVersionRequestWithoutEnv(v) ==
    [buildCreateVersionRequestWithBase(v, NoVersion) EXCEPT !.Env = <<>>]

buildCreateVersionRequest(v) == buildCreateVersionRequestWithBase(v, NoVersion)

----------------------------------------------------------------------------
(* The gateway: what a successful call does to the live state *)

\* CreateApplicationVersion of the mock server: the stored version detail
VersionDetail(req, number) ==
    [Version |-> number, CPU |-> req.CPU, Memory |-> req.Memory, ScalingMode |-> req.ScalingMode,
     FixedScale |-> req.FixedScale, MinScale |-> req.MinScale, MaxScale |-> req.MaxScale,
     ScaleInThreshold |-> req.ScaleInThreshold, ScaleOutThreshold |-> req.ScaleOutThreshold,
     Image |-> req.Image, Cmd |-> req.Cmd, RegistryUsername |-> req.RegistryUsername,
     ExposedPorts |-> req.ExposedPorts,
     Env |-> [i \in DOMAIN req.Env |->
                [Key |-> req.Env[i].Key, Value |-> req.Env[i].Value, Secret |-> req.Env[i].Secret]]]

\* CreateApplication of the mock server: a new application without versions
NewApplication(id, name) ==
    [ApplicationID |-> id, Name |-> name, ActiveVersion |-> NoInt, Versions |-> <<>>]

AppByID(as, id) == CHOOSE a \in as : a.ApplicationID = id

WithVersion(as, id, req) ==
    LET a == AppByID(as, id)
    IN (as \ {a}) \cup {[a EXCEPT !.Versions = Append(@, VersionDetail(req, Len(a.Versions) + 1))]}

WithActiveVersion(as, id, n) ==
    LET a == AppByID(as, id)
    IN (as \ {a}) \cup {[a EXCEPT !.ActiveVersion = Opt(n)]}

ASGDetail(id, req) == [AutoScalingGroupID |-> id] @@ req

LBDetail(id, asgID, req) == [LoadBalancerID |-> id, AutoScalingGroupID |-> asgID] @@ req

----------------------------------------------------------------------------
(* Apply: the pieces of the loops *)

\* one gateway call as recorded in log; lbsUnder: for DeleteAutoScalingGroup,
\* the ids of the LoadBalancers live under the group when the call was issued
Entry(op, stage, act, name, id, ok, req, lbsUnder) ==
    [op |-> op, stage |-> stage, act |-> act, name |-> name, id |-> id, ok |-> ok,
     req |-> req, lbsUnder |-> lbsUnder]

\* a delete loop that handles LBActionDelete only
LBDeleteKindsWithoutRecreate == {"delete"}

\* "if action.Action == LBActionDelete || action.Action == LBActionRecreate"
LBDeleteKinds == {"delete", "recreate"}

\* "if action.Action == ASGActionDelete || action.Action == ASGActionRecreate"
ASGDeleteKinds == {"delete", "recreate"}

\* "if action.Action == ASGActionCreate || action.Action == ASGActionRecreate"
ASGCreateKinds == {"create", "recreate"}

\* "if action.Action == LBActionCreate || action.Action == LBActionRecreate"
LBCreateKinds == {"create", "recreate"}

\* "for _, action := range actions { if <kind> {": the next index at or after
\* i whose action the loop body handles, 0 when the loop is over
NextAt(actions, kinds, i) ==
    IF \E j \in i..Len(actions) : actions[j].Action \in kinds
    THEN CHOOSE j \in i..Len(actions) :
            /\ actions[j].Action \in kinds
            /\ \A k \in i..(j - 1) : actions[k].Action \notin kinds
    ELSE 0

\* a loop that goes on after an error
AfterCallIgnoringError(ok, stage) == stage

\* "if err != nil { return wrapAPIError(...) }": where the run stands after a call
AfterCall(ok, stage) == IF ok THEN stage ELSE "failed"

\* the order of the infrastructure and application stages of Apply
NextStage(stage) ==
    CASE stage = "lbDelete" -> "asgDelete"
      [] stage = "asgDelete" -> "asgCreate"
      [] stage = "asgCreate" -> "lbCreate"
      [] stage = "lbCreate" -> "apps"

\* the ASG name -> id map Apply starts from: the live groups
existingASGIDs(currentASGs) ==
    [n \in {a.Name : a \in currentASGs} |->
        (CHOOSE a \in currentASGs : a.Name = n).AutoScalingGroupID]

\* an Apply that keeps the ids it started with
keepASGIDs(m, name, id) == m

\* the id of a created ASG recorded under its name
recordASGID(m, name, id) ==
    [n \in DOMAIN m \cup {name} |-> IF n = name THEN id ELSE m[n]]

NameOf(c) == c.Name

LBKeyOf(c) == <<c.AutoScalingGroupName, c.Name>>

\* updateSecretEnvVersions: the ledger after the loop over appCfg.Spec.Env, and
\* whether it was modified
RECURSIVE updateSecretEnvVersionsFrom(_, _, _)
updateSecretEnvVersionsFrom(s, appName, env) ==
    IF env = <<>> THEN [State |-> s, Modified |-> FALSE]
    ELSE LET e == Head(env)
             storedVersion == GetSecretEnvVersion(s, appName, e.Key)
             set == /\ e.Secret /\ e.SecretVersion.Set
                    /\ (~storedVersion.Set \/ storedVersion.Value # e.SecretVersion.Value)
             s1 == IF set THEN SetSecretEnvVersion(s, appName, e.Key, e.SecretVersion) ELSE s
             rest == updateSecretEnvVersionsFrom(s1, appName, Tail(env))
         IN [State |-> rest.State, Modified |-> set \/ rest.Modified]

updateSecretEnvVersions(s, appCfg) == updateSecretEnvVersionsFrom(s, appCfg.Name, appCfg.Spec.Env)

\* Apply, case ActionCreate, after createApplication returned nil
ledgerAfterCreate(s, appCfg) ==
    LET pw == appCfg.Spec.RegistryPasswordVersion.Set
        s1 == IF pw THEN SetPasswordVersion(s, appCfg.Name, appCfg.Spec.RegistryPasswordVersion) ELSE s
        r == updateSecretEnvVersions(s1, appCfg)
    IN [State |-> r.State, Modified |-> pw \/ r.Modified]

\* Apply, case ActionUpdate, after updateApplication returned nil
ledgerAfterUpdate(s, appCfg) ==
    LET storedVersion == GetPasswordVersion(s, appCfg.Name)
        desiredVersion == appCfg.Spec.RegistryPasswordVersion
        set == IF desiredVersion.Set
               THEN ~storedVersion.Set \/ storedVersion.Value # desiredVersion.Value
               ELSE storedVersion.Set
        s1 == IF set THEN SetPasswordVersion(s, appCfg.Name, desiredVersion) ELSE s
        r == updateSecretEnvVersions(s1, appCfg)
    IN [State |-> r.State, Modified |-> set \/ r.Modified]

\* a ledger that is written whether or not the application call succeeded
ledgerRegardless(ok, s, l) == l.State

\* Apply returns at the error of createApplication or updateApplication, before
\* the statements that set the versions: s stays, else the ledger l.State
ledgerUnlessFailed(ok, s, l) == IF ok THEN l.State ELSE s

\* an Apply that activates whatever the option says
activatesAlways(activateOpt) == TRUE

\* "if opts.Activate": the new version is activated only if requested
activates(activateOpt) == activateOpt

\* createApplication against the live applications as; failAt: the call that
\* the gateway fails (0: none).  Returns the calls issued and the gateway after.
createApplication(as, id, appCfg, act, activateOpt, failAt) ==
    LET req == buildCreateVersionRequest(appCfg.Spec)
        c1 == Entry("CreateApplication", "apps", act, appCfg.Name, id, failAt # 1, <<>>, {})
        c2 == Entry("CreateApplicationVersion", "apps", act, appCfg.Name, id, failAt # 2, req, {})
        c3 == Entry("UpdateApplication", "apps", act, appCfg.Name, id, failAt # 3, <<>>, {})
        as1 == as \cup {NewApplication(id, appCfg.Name)}
        as2 == WithVersion(as1, id, req)
        versionNum == Len(AppByID(as2, id).Versions)
    IN IF failAt = 1 THEN [ok |-> FALSE, calls |-> <<c1>>, apps |-> as, nextID |-> id]
       ELSE IF failAt = 2 THEN [ok |-> FALSE, calls |-> <<c1, c2>>, apps |-> as1, nextID |-> id + 1]
       ELSE IF ~activates(activateOpt) THEN [ok |-> TRUE, calls |-> <<c1, c2>>, apps |-> as2, nextID |-> id + 1]
       ELSE IF failAt = 3 THEN [ok |-> FALSE, calls |-> <<c1, c2, c3>>, apps |-> as2, nextID |-> id + 1]
       ELSE [ok |-> TRUE, calls |-> <<c1, c2, c3>>,
             apps |-> WithActiveVersion(as2, id, versionNum), nextID |-> id + 1]

\* updateApplication; existing: the application as listed at the start of Apply
updateApplication(as, existing, appCfg, act, activateOpt, failAt) ==
    LET id == existing.ApplicationID
        latestVersion == getLatestVersion(AppByID(as, id))
        req == buildCreateVersionRequestWithBase(appCfg.Spec, latestVersion)
        c1 == Entry("ListApplicationVersions", "apps", act, appCfg.Name, id, failAt # 1, <<>>, {})
        c2 == Entry("CreateApplicationVersion", "apps", act, appCfg.Name, id, failAt # 2, req, {})
        c3 == Entry("UpdateApplication", "apps", act, appCfg.Name, id, failAt # 3, <<>>, {})
        as2 == WithVersion(as, id, req)
        versionNum == Len(AppByID(as2, id).Versions)
    IN IF failAt = 1 THEN [ok |-> FALSE, calls |-> <<c1>>, apps |-> as]
       ELSE IF failAt = 2 THEN [ok |-> FALSE, calls |-> <<c1, c2>>, apps |-> as]
       ELSE IF ~activates(activateOpt) THEN [ok |-> TRUE, calls |-> <<c1, c2>>, apps |-> as2]
       ELSE IF failAt = 3 THEN [ok |-> FALSE, calls |-> <<c1, c2, c3>>, apps |-> as2]
       ELSE [ok |-> TRUE, calls |-> <<c1, c2, c3>>, apps |-> WithActiveVersion(as2, id, versionNum)]

----------------------------------------------------------------------------
(* The configurations and gateway states the runs start from *)

\* longest version history an application starts with
MaxVersions == 2

iface0 ==
    [InterfaceIndex |-> 0, Upstream |-> "shared", ConnectsToLB |-> TRUE, IpPool |-> <<>>,
     NetmaskLen |-> NoInt, DefaultGateway |-> NoStr, PacketFilterID |-> NoStr]

iface1 ==
    [InterfaceIndex |-> 1, Upstream |-> "sw1", ConnectsToLB |-> FALSE,
     IpPool |-> <<[Start |-> "10.0.0.10", End |-> "10.0.0.20"]>>,
     NetmaskLen |-> Opt(24), DefaultGateway |-> Opt("10.0.0.1"), PacketFilterID |-> NoStr]

\* config.AutoScalingGroupConfig
ASGConfig(name) ==
    [Name |-> name, Zone |-> "is1a", WorkerServiceClassPath |-> "w1", MinNodes |-> 1,
     MaxNodes |-> 2, NameServers |-> <<"ns1">>, Interfaces |-> <<iface0>>]

\* settings a live ASG of that name may have: the configured ones, or one
\* compared field changed
ASGLiveSettings(name) ==
    LET c == buildCreateASGRequest(ASGConfig(name))
    IN {c, [c EXCEPT !.MaxNodes = 3], [c EXCEPT !.NameServers = <<>>],
        [c EXCEPT !.Interfaces = <<[iface0 EXCEPT !.Upstream = "sw1"]>>],
        [c EXCEPT !.Interfaces = <<iface0, iface1>>]}

lbIface0 ==
    [InterfaceIndex |-> 0, Upstream |-> "shared", IpPool |-> <<>>, NetmaskLen |-> NoInt,
     DefaultGateway |-> NoStr, Vip |-> NoStr, VirtualRouterID |-> NoInt, PacketFilterID |-> NoStr]

\* config.LoadBalancerConfig
LBConfig(name, asgName) ==
    [Name |-> name, AutoScalingGroupName |-> asgName, ServiceClassPath |-> "lb1",
     NameServers |-> <<"ns1">>, Interfaces |-> <<lbIface0>>]

LBLiveSettings(name, asgName) ==
    LET c == buildCreateLBRequest(LBConfig(name, asgName))
    IN {c, [c EXCEPT !.ServiceClassPath = "lb2"],
        [c EXCEPT !.Interfaces = <<[lbIface0 EXCEPT !.Vip = Opt("10.0.0.5")]>>]}

NoHealthCheck == [Set |-> FALSE, Value |-> [Path |-> "", IntervalSeconds |-> 0, TimeoutSeconds |-> 0]]

port80 ==
    [TargetPort |-> 80, LoadBalancerPort |-> NoInt, UseLetsEncrypt |-> FALSE, Host |-> <<>>,
     HealthCheck |-> NoHealthCheck]

\* config.ApplicationSpec
spec0 ==
    [Image |-> "img:1", CPU |-> 500, Memory |-> 1024, ScalingMode |-> "manual",
     FixedScale |-> Opt(1), MinScale |-> NoInt, MaxScale |-> NoInt,
     ScaleInThreshold |-> NoInt, ScaleOutThreshold |-> NoInt, Cmd |-> <<>>,
     RegistryUsername |-> NoStr, RegistryPassword |-> NoStr, RegistryPasswordVersion |-> NoInt,
     ExposedPorts |-> <<port80>>, Env |-> <<>>]

envPlain == [Key |-> "K", Value |-> Opt("v"), Secret |-> FALSE, SecretVersion |-> NoInt]

envSecret(n) == [Key |-> "S", Value |-> Opt("s"), Secret |-> TRUE, SecretVersion |-> Opt(n)]

specRegistry(n) ==
    [spec0 EXCEPT !.RegistryUsername = Opt("u"), !.RegistryPassword = Opt("p"),
                  !.RegistryPasswordVersion = Opt(n)]

\* the application specs of the YAML files and of the versions already live
AppSpecs ==
    {spec0, [spec0 EXCEPT !.Image = "img:2"], [spec0 EXCEPT !.CPU = 1000],
     [spec0 EXCEPT !.Cmd = <<"run">>], [spec0 EXCEPT !.Env = <<envPlain>>],
     [spec0 EXCEPT !.Env = <<envSecret(1)>>], specRegistry(1), specRegistry(2),
     [spec0 EXCEPT !.ScalingMode = "cpu", !.FixedScale = NoInt, !.MinScale = Opt(1),
                   !.MaxScale = Opt(3)]}

\* config.ApplicationConfig
AppConfig(name, spec) == [Name |-> name, Spec |-> spec]

\* a version history: versions 1..n-1 created from spec0, version n from spec
History(n, spec) ==
    [i \in 1..n |-> VersionDetail(buildCreateVersionRequest(IF i = n THEN spec ELSE spec0), i)]

LiveApp(id, name, versions) ==
    [ApplicationID |-> id, Name |-> name, ActiveVersion |-> NoInt, Versions |-> versions]

EmptyPlan == [ASGActions |-> <<>>, LBActions |-> <<>>, Actions |-> <<>>]

\* no wait for a deletion is in progress
NotWaiting == [pc |-> "none", now |-> 0, elapsed |-> 0, fetched |-> "", result |-> ""]

\* no ledger operation has been applied on its own
NoLedgerOp == [op |-> "none", app |-> "", key |-> "", version |-> NoInt, before |-> NoLedger]

\* the cluster of the config has been resolved; no resolution is in progress
NotResolving == [pc |-> "none", clusterName |-> "", pages |-> <<>>, cursor |-> 0, calls |-> 0, err |-> <<>>]

\* what every run starts with, whatever the configuration
InitRest ==
    /\ nextID = 10
    /\ st = NoLedger
    /\ plan = EmptyPlan
    /\ warnings = <<>>
    /\ pc = "idle"
    /\ idx = 1
    /\ asgNameToID = [n \in {} |-> 0]
    /\ existingByName = {}
    /\ stateModified = FALSE
    /\ log = <<>>
    /\ saves = 0
    /\ runs = 0
    /\ live0 = [asgs |-> {}, lbs |-> {}, apps |-> {}, ledger |-> NoLedger]
    /\ planLog = <<>>
    /\ wait = NotWaiting
    /\ ledgerOp = NoLedgerOp
    /\ resolve = NotResolving

\* infrastructure of every shape, one application that is up to date
InitInfra ==
    /\ \E da \in {<<>>, <<"A">>, <<"B">>, <<"A", "B">>}, dl \in {<<>>, <<"L">>} :
          cfg = [AutoScalingGroups |-> [i \in DOMAIN da |-> ASGConfig(da[i])],
                 LoadBalancers |-> [i \in DOMAIN dl |-> LBConfig(dl[i], "A")],
                 Applications |-> <<AppConfig("X", spec0)>>]
    /\ activate = FALSE
    /\ \E la \in SUBSET {"A", "B"} :
          /\ \E sa \in ASGLiveSettings("A") :
                asgs = {ASGDetail(1, sa) : n \in la \cap {"A"}}
                       \cup {ASGDetail(2, buildCreateASGRequest(ASGConfig("B"))) : n \in la \cap {"B"}}
          /\ \E ll \in SUBSET {"L", "M"}, sl \in LBLiveSettings("L", "A") :
                lbs = IF "A" \in la
                      THEN {LBDetail(3, 1, sl) : n \in ll \cap {"L"}}
                           \cup {LBDetail(4, 1, buildCreateLBRequest(LBConfig("M", "A"))) : n \in ll \cap {"M"}}
                      ELSE {}
    /\ apps = {LiveApp(5, "X", History(1, spec0))}
    /\ disk = NoLedger
    /\ InitRest

\* no infrastructure, applications and ledgers of every shape; the ledger file
\* may hold the versions of an application that is no longer live; of an
\* application with several versions the first one is active
InitApps ==
    /\ \E spec \in AppSpecs, more \in {<<>>, <<AppConfig("Y", spec0)>>} :
          cfg = [AutoScalingGroups |-> <<>>, LoadBalancers |-> <<>>,
                 Applications |-> <<AppConfig("X", spec)>> \o more]
    /\ activate \in BOOLEAN
    /\ asgs = {}
    /\ lbs = {}
    /\ \E lx \in SUBSET {"X", "Z"}, n \in 0..MaxVersions, live \in AppSpecs, kept \in BOOLEAN :
          /\ apps = {[LiveApp(5, "X", History(n, live))
                        EXCEPT !.ActiveVersion = IF n > 1 THEN Opt(1) ELSE NoInt] : k \in lx \cap {"X"}}
                    \cup {LiveApp(6, "Z", History(1, spec0)) : k \in lx \cap {"Z"}}
          /\ disk = IF kept
                    THEN ledgerAfterCreate(NoLedger, AppConfig("X", live)).State
                    ELSE NoLedger
    /\ InitRest

Init == InitInfra \/ InitApps

----------------------------------------------------------------------------
(* CreatePlan *)

IfaceIndexes(desired) ==
    UNION {{desired[i].Interfaces[k].InterfaceIndex : k \in DOMAIN desired[i].Interfaces} : i \in DOMAIN desired}

\* the infrastructure part of the plan: planASGChanges, then planLBChanges
\* against the same live groups
planInfrastructure(currentASGs, allLBs, c, asgOrds, orphanOrd, lbOrds, asgOrd, orphanLBOrds) ==
    [ASGActions |-> planASGChanges(currentASGs, c.AutoScalingGroups, asgOrds, orphanOrd),
     LBActions |-> planLBChanges(currentASGs, allLBs, c.LoadBalancers, lbOrds, asgOrd, orphanLBOrds)]

\* a CreatePlan without the loop over what is left in existingByName
orphanWarningsNone(remaining, ord) == <<>>

\* "for name := range existingByName { log.Printf("WARNING: ...") }": one
\* warning per application left in the map, in the map's order ord
orphanWarnings(remaining, ord) == SelectSeqBy(ord, remaining)

\* getLatestVersion: the gateway operations it issues for one application
versionReads(app) ==
    <<"ListApplicationVersions">>
    \o (IF Len(FirstPage(app.Versions)) > 0 THEN <<"GetApplicationVersion">> ELSE <<>>)

\* CreatePlan: resolveClusterID, listAllApplications, then planUpdate for each
\* configured application still in existingByName
RECURSIVE applicationReads(_, _, _)
applicationReads(existing, existingNames, appCfgs) ==
    IF appCfgs = <<>> THEN <<>>
    ELSE LET name == Head(appCfgs).Name
         IN (IF name \in existingNames
             THEN versionReads(CHOOSE a \in existing : a.Name = name)
             ELSE <<>>)
            \o applicationReads(existing, existingNames \ {name}, Tail(appCfgs))

\* a listAllLBs that removes what it lists
lbReadsDeleting(allLBs, asgID) ==
    <<"ListLoadBalancers">>
    \o Flatten([k \in 1..Cardinality(listAllLBs(allLBs, asgID)) |->
                  <<"GetLoadBalancer", "DeleteLoadBalancer">>])

\* listAllLBs: one list, then one get per LoadBalancer listed
lbReads(allLBs, asgID) ==
    <<"ListLoadBalancers">>
    \o [k \in 1..Cardinality(listAllLBs(allLBs, asgID)) |-> "GetLoadBalancer"]

\* planASGChanges lists the groups; planLBChanges lists the LoadBalancers of
\* each group, in the order asgOrd of the groups
infrastructureReads(currentASGs, allLBs, asgOrd) ==
    <<"ListAutoScalingGroups">>
    \o Flatten([k \in DOMAIN asgOrd |->
                  lbReads(allLBs, (CHOOSE a \in currentASGs : a.Name = asgOrd[k]).AutoScalingGroupID)])

\* every gateway operation of one CreatePlan
planReads(currentASGs, allLBs, existing, c, asgOrd) ==
    <<"ListClusters", "ListApplications">>
    \o applicationReads(existing, {a.Name : a \in existing}, c.Applications)
    \o infrastructureReads(currentASGs, allLBs, asgOrd)

\* a new process (it loads the ledger from disk) computes the plan
CreatePlan ==
    /\ pc \in {"idle", "done", "failed", "planFailed"}
    /\ runs < MaxRuns
    /\ LET liveNames == {a.Name : a \in asgs}
           desiredNames == {cfg.AutoScalingGroups[i].Name : i \in DOMAIN cfg.AutoScalingGroups}
           r == planApplications(disk, apps, {a.Name : a \in apps}, cfg.Applications)
       IN \E asgOrds \in [DOMAIN cfg.AutoScalingGroups -> Perms(IfaceIndexes(cfg.AutoScalingGroups))],
             orphanOrd \in Perms(liveNames \ desiredNames),
             lbOrds \in [DOMAIN cfg.LoadBalancers -> Perms(IfaceIndexes(cfg.LoadBalancers))],
             asgOrd \in Perms(liveNames),
             orphanLBOrds \in [liveNames -> Perms({l.Name : l \in lbs})],
             warnOrd \in Perms(r.Remaining) :
            /\ plan' = planInfrastructure(asgs, lbs, cfg, asgOrds, orphanOrd, lbOrds, asgOrd, orphanLBOrds)
                       @@ [Actions |-> r.Actions]
            /\ warnings' = orphanWarnings(r.Remaining, warnOrd)
            /\ planLog' = planReads(asgs, lbs, apps, cfg, SelectSeqBy(asgOrd, liveNames))
    /\ st' = disk
    /\ runs' = runs + 1
    /\ pc' = "planned"
    /\ log' = <<>>
    /\ live0' = [asgs |-> asgs, lbs |-> lbs, apps |-> apps, ledger |-> disk]
    /\ UNCHANGED <<cfg, activate, asgs, lbs, apps, nextID, disk, idx, asgNameToID, existingByName,
                   stateModified, saves, wait, ledgerOp, resolve>>

\* a read of CreatePlan fails, the first one or the last one: no plan, the
\* command ends
CreatePlanFails ==
    /\ pc \in {"idle", "done", "failed", "planFailed"}
    /\ runs < MaxRuns
    /\ plan' = EmptyPlan
    /\ warnings' = <<>>
    /\ \E asgOrd \in Perms({a.Name : a \in asgs}) :
          LET reads == planReads(asgs, lbs, apps, cfg, asgOrd)
          IN \E n \in {1, Len(reads)} : planLog' = SubSeq(reads, 1, n)
    /\ st' = disk
    /\ runs' = runs + 1
    /\ pc' = "planFailed"
    /\ log' = <<>>
    /\ live0' = [asgs |-> asgs, lbs |-> lbs, apps |-> apps, ledger |-> disk]
    /\ UNCHANGED <<cfg, activate, asgs, lbs, apps, nextID, disk, idx, asgNameToID, existingByName,
                   stateModified, saves, wait, ledgerOp, resolve>>

----------------------------------------------------------------------------
(* Apply *)

\* Apply lists the applications and starts the first loop
ApplyStart ==
    /\ pc = "planned"
    /\ \E ok \in BOOLEAN :
          /\ log' = <<Entry("ListApplications", "start", 0, "", 0, ok, <<>>, {})>>
          /\ pc' = AfterCall(ok, "lbDelete")
          /\ existingByName' = IF ok THEN apps ELSE {}
    /\ asgNameToID' = existingASGIDs(asgs)
    /\ idx' = 1
    /\ stateModified' = FALSE
    /\ saves' = 0
    /\ UNCHANGED <<cfg, activate, asgs, lbs, apps, nextID, st, disk, plan, warnings, runs, live0, planLog, wait, ledgerOp, resolve>>

\* applyLBChanges, first loop: one LoadBalancer planned Delete or Recreate
DeleteLB ==
    /\ pc = "lbDelete"
    /\ LET j == NextAt(plan.LBActions, LBDeleteKinds, idx) IN
       /\ j # 0
       /\ LET action == plan.LBActions[j] IN
          IF ~action.ExistingID.Set \/ ~action.ASGID.Set
          THEN pc' = "failed" /\ UNCHANGED <<lbs, log, idx>>
          ELSE \E ok \in BOOLEAN :
                LET target == {l \in lbs : /\ l.LoadBalancerID = action.ExistingID.Value
                                           /\ l.AutoScalingGroupID = action.ASGID.Value}
                IN /\ ok => target # {}
                   /\ log' = Append(log, Entry("DeleteLoadBalancer", "lbDelete", j, action.Name,
                                               action.ExistingID.Value, ok, <<>>, {}))
                   /\ lbs' = IF ok THEN lbs \ target ELSE lbs
                   /\ idx' = j + 1
                   /\ pc' = AfterCall(ok, "lbDelete")
    /\ UNCHANGED <<cfg, activate, asgs, apps, nextID, st, disk, plan, warnings, asgNameToID,
                   existingByName, stateModified, saves, runs, live0, planLog, wait, ledgerOp, resolve>>

\* applyASGChanges, first loop: one ASG planned Delete or Recreate
DeleteASG ==
    /\ pc = "asgDelete"
    /\ LET j == NextAt(plan.ASGActions, ASGDeleteKinds, idx) IN
       /\ j # 0
       /\ LET action == plan.ASGActions[j] IN
          IF ~action.ExistingID.Set
          THEN pc' = "failed" /\ UNCHANGED <<asgs, log, idx>>
          ELSE \E ok \in BOOLEAN :
                LET target == {a \in asgs : a.AutoScalingGroupID = action.ExistingID.Value}
                    under == {l.LoadBalancerID : l \in listAllLBs(lbs, action.ExistingID.Value)}
                IN /\ ok => target # {}
                   /\ log' = Append(log, Entry("DeleteAutoScalingGroup", "asgDelete", j, action.Name,
                                               action.ExistingID.Value, ok, <<>>, under))
                   /\ asgs' = IF ok THEN asgs \ target ELSE asgs
                   /\ idx' = j + 1
                   /\ pc' = AfterCall(ok, "asgDelete")
    /\ UNCHANGED <<cfg, activate, lbs, apps, nextID, st, disk, plan, warnings, asgNameToID,
                   existingByName, stateModified, saves, runs, live0, planLog, wait, ledgerOp, resolve>>

\* applyASGChanges, second loop: one ASG planned Create or Recreate
CreateASG ==
    /\ pc = "asgCreate"
    /\ LET j == NextAt(plan.ASGActions, ASGCreateKinds, idx) IN
       /\ j # 0
       /\ LET action == plan.ASGActions[j]
              desired == cfg.AutoScalingGroups
          IN IF ~\E i \in DOMAIN desired : desired[i].Name = action.Name
             THEN pc' = "failed" /\ UNCHANGED <<asgs, nextID, asgNameToID, log, idx>>
             ELSE \E ok \in BOOLEAN :
                   LET req == buildCreateASGRequest(desired[LastIndex([n \in DOMAIN desired |-> NameOf(desired[n])], action.Name)])
                   IN /\ log' = Append(log, Entry("CreateAutoScalingGroup", "asgCreate", j, action.Name,
                                                  nextID, ok, req, {}))
                      /\ asgs' = IF ok THEN asgs \cup {ASGDetail(nextID, req)} ELSE asgs
                      /\ nextID' = IF ok THEN nextID + 1 ELSE nextID
                      /\ asgNameToID' = IF ok THEN recordASGID(asgNameToID, action.Name, nextID)
                                        ELSE asgNameToID
                      /\ idx' = j + 1
                      /\ pc' = AfterCall(ok, "asgCreate")
    /\ UNCHANGED <<cfg, activate, lbs, apps, st, disk, plan, warnings, existingByName,
                   stateModified, saves, runs, live0, planLog, wait, ledgerOp, resolve>>

\* applyLBChanges, second loop: one LoadBalancer planned Create or Recreate
CreateLB ==
    /\ pc = "lbCreate"
    /\ LET j == NextAt(plan.LBActions, LBCreateKinds, idx) IN
       /\ j # 0
       /\ LET action == plan.LBActions[j]
              desired == cfg.LoadBalancers
              key == <<action.ASGName, action.Name>>
          IN IF \/ ~\E i \in DOMAIN desired : LBKeyOf(desired[i]) = key
                \/ action.ASGName \notin DOMAIN asgNameToID
             THEN pc' = "failed" /\ UNCHANGED <<lbs, nextID, log, idx>>
             ELSE \E ok \in BOOLEAN :
                   LET req == buildCreateLBRequest(desired[LastIndex([n \in DOMAIN desired |-> LBKeyOf(desired[n])], key)])
                       asgID == asgNameToID[action.ASGName]
                   IN /\ ok => \E a \in asgs : a.AutoScalingGroupID = asgID
                      /\ log' = Append(log, Entry("CreateLoadBalancer", "lbCreate", j, action.Name,
                                                  asgID, ok, req, {}))
                      /\ lbs' = IF ok THEN lbs \cup {LBDetail(nextID, asgID, req)} ELSE lbs
                      /\ nextID' = IF ok THEN nextID + 1 ELSE nextID
                      /\ idx' = j + 1
                      /\ pc' = AfterCall(ok, "lbCreate")
    /\ UNCHANGED <<cfg, activate, asgs, apps, st, disk, plan, warnings, asgNameToID, existingByName,
                   stateModified, saves, runs, live0, planLog, wait, ledgerOp, resolve>>

\* the kinds of action the loop of a stage handles, and the actions it ranges over
StageKinds(stage) ==
    CASE stage = "lbDelete" -> LBDeleteKinds
      [] stage = "asgDelete" -> ASGDeleteKinds
      [] stage = "asgCreate" -> ASGCreateKinds
      [] stage = "lbCreate" -> LBCreateKinds

StageActions(p, stage) ==
    IF stage \in {"lbDelete", "lbCreate"} THEN p.LBActions ELSE p.ASGActions

\* a loop over the infrastructure actions is over: the next stage starts
StageDone ==
    /\ pc \in {"lbDelete", "asgDelete", "asgCreate", "lbCreate"}
    /\ NextAt(StageActions(plan, pc), StageKinds(pc), idx) = 0
    /\ pc' = NextStage(pc)
    /\ idx' = 1
    /\ UNCHANGED <<cfg, activate, asgs, lbs, apps, nextID, st, disk, plan, warnings, asgNameToID,
                   existingByName, stateModified, log, saves, runs, live0, planLog, wait, ledgerOp, resolve>>

\* a loop that skips only the actions without a config
skipsUnknownOnly(known, kind) == ~known

\* "if !ok { continue }" and "case ActionNoop": the iteration calls nothing
skipsAction(known, kind) == ~known \/ kind = "noop"

\* Apply, one iteration of the loop over plan.Actions
ApplyApp ==
    /\ pc = "apps"
    /\ idx <= Len(plan.Actions)
    /\ LET action == plan.Actions[idx]
           known == \E i \in DOMAIN cfg.Applications : cfg.Applications[i].Name = action.ApplicationName
           appCfg == cfg.Applications[LastIndex([n \in DOMAIN cfg.Applications |-> NameOf(cfg.Applications[n])], action.ApplicationName)]
       IN IF skipsAction(known, action.Action)
          THEN /\ idx' = idx + 1
               /\ UNCHANGED <<apps, nextID, st, stateModified, log, pc>>
          ELSE IF action.Action = "create"
          THEN \E failAt \in 0..(IF activate THEN 3 ELSE 2) :
                LET r == createApplication(apps, nextID, appCfg, idx, activate, failAt)
                    l == ledgerAfterCreate(st, appCfg)
                IN /\ (\E a \in apps : a.Name = appCfg.Name) => failAt = 1
                   /\ apps' = r.apps
                   /\ nextID' = r.nextID
                   /\ log' = log \o r.calls
                   /\ st' = ledgerUnlessFailed(r.ok, st, l)
                   /\ stateModified' = IF r.ok THEN stateModified \/ l.Modified ELSE stateModified
                   /\ idx' = idx + 1
                   /\ pc' = AfterCall(r.ok, "apps")
          ELSE IF ~\E a \in existingByName : a.Name = action.ApplicationName
          THEN \* existingApp is nil: updateApplication dereferences it
               /\ pc' = "panic"
               /\ UNCHANGED <<apps, nextID, st, stateModified, log, idx>>
          ELSE \E failAt \in 0..(IF activate THEN 3 ELSE 2) :
                LET existingApp == CHOOSE a \in existingByName : a.Name = action.ApplicationName
                    r == updateApplication(apps, existingApp, appCfg, idx, activate, failAt)
                    l == ledgerAfterUpdate(st, appCfg)
                IN /\ apps' = r.apps
                   /\ log' = log \o r.calls
                   /\ st' = ledgerUnlessFailed(r.ok, st, l)
                   /\ stateModified' = IF r.ok THEN stateModified \/ l.Modified ELSE stateModified
                   /\ idx' = idx + 1
                   /\ pc' = AfterCall(r.ok, "apps")
                   /\ UNCHANGED nextID
    /\ UNCHANGED <<cfg, activate, asgs, lbs, disk, plan, warnings, asgNameToID, existingByName,
                   saves, runs, live0, planLog, wait, ledgerOp, resolve>>

\* Apply, after the loop: "if stateModified { p.state.Save(...) }"
ApplyFinish ==
    /\ pc = "apps"
    /\ idx > Len(plan.Actions)
    /\ IF stateModified
       THEN \E ok \in BOOLEAN :
               /\ disk' = IF ok THEN st ELSE disk
               /\ saves' = IF ok THEN saves + 1 ELSE saves
               /\ pc' = IF ok THEN "done" ELSE "failed"
       ELSE pc' = "done" /\ UNCHANGED <<disk, saves>>
    /\ UNCHANGED <<cfg, activate, asgs, lbs, apps, nextID, st, plan, warnings, idx, asgNameToID,
                   existingByName, stateModified, log, runs, live0, planLog, wait, ledgerOp, resolve>>

----------------------------------------------------------------------------
(* The ledger on its own: set operations applied to a new State *)

\* highest version number written to the ledger
MaxSecretVersion == 2

LedgerApps == {"X", "Y"}

LedgerKeys == {"S", "T"}

\* a *int argument: nil or a version number
LedgerVersions == {NoInt} \cup {Opt(n) : n \in 1..MaxSecretVersion}

\* state.NewState(), nothing else going on
InitLedger ==
    /\ cfg = [AutoScalingGroups |-> <<>>, LoadBalancers |-> <<>>, Applications |-> <<>>]
    /\ activate = FALSE
    /\ asgs = {}
    /\ lbs = {}
    /\ apps = {}
    /\ disk = NoLedger
    /\ InitRest

LedgerSetPassword ==
    /\ \E a \in LedgerApps, v \in LedgerVersions :
          /\ st' = SetPasswordVersion(st, a, v)
          /\ ledgerOp' = [op |-> "SetPasswordVersion", app |-> a, key |-> "", version |-> v,
                          before |-> st]
    /\ UNCHANGED <<cfg, activate, asgs, lbs, apps, nextID, disk, plan, warnings, pc, idx,
                   asgNameToID, existingByName, stateModified, log, saves, runs, live0,
                   planLog, wait, resolve>>

LedgerSetSecretEnv ==
    /\ \E a \in LedgerApps, k \in LedgerKeys, v \in LedgerVersions :
          /\ st' = SetSecretEnvVersion(st, a, k, v)
          /\ ledgerOp' = [op |-> "SetSecretEnvVersion", app |-> a, key |-> k, version |-> v,
                          before |-> st]
    /\ UNCHANGED <<cfg, activate, asgs, lbs, apps, nextID, disk, plan, warnings, pc, idx,
                   asgNameToID, existingByName, stateModified, log, saves, runs, live0,
                   planLog, wait, resolve>>

NextLedger ==
    \/ LedgerSetPassword
    \/ LedgerSetSecretEnv

LedgerSpec == InitLedger /\ [][NextLedger]_vars

----------------------------------------------------------------------------
(* waitForASGDeletion on its own: src/provisioner/autoscaling.go *)

\* pollInterval := 3 * time.Second
pollInterval == 3

\* timeout := 5 * time.Minute, in seconds
timeout == 300

\* longest time, in seconds, one GetAutoScalingGroup takes to return
MaxFetchSeconds == 1

\* what a GetAutoScalingGroup returns: the group, an *ogenerrors.SecurityError,
\* any other error
FetchResults == {"ok", "security", "error"}

\* a wait that takes every error for the deletion
resultOfAnyError(err) == "deleted"

\* "if err != nil": a SecurityError is returned as a failure, any other error
\* is taken for the deletion
resultOfError(err) == IF err = "security" THEN "failed" ELSE "deleted"

\* startTime := time.Now(), nothing else going on
InitWait ==
    /\ cfg = [AutoScalingGroups |-> <<>>, LoadBalancers |-> <<>>, Applications |-> <<>>]
    /\ activate = FALSE
    /\ asgs = {}
    /\ lbs = {}
    /\ apps = {}
    /\ disk = NoLedger
    /\ nextID = 10
    /\ st = NoLedger
    /\ plan = EmptyPlan
    /\ warnings = <<>>
    /\ pc = "idle"
    /\ idx = 1
    /\ asgNameToID = [n \in {} |-> 0]
    /\ existingByName = {}
    /\ stateModified = FALSE
    /\ log = <<>>
    /\ saves = 0
    /\ runs = 0
    /\ live0 = [asgs |-> {}, lbs |-> {}, apps |-> {}, ledger |-> NoLedger]
    /\ planLog = <<>>
    /\ ledgerOp = NoLedgerOp
    /\ resolve = NotResolving
    /\ wait = [NotWaiting EXCEPT !.pc = "check"]

\* the top of the loop: elapsed := time.Since(startTime), and the timeout
WaitCheck ==
    /\ wait.pc = "check"
    /\ wait' = IF wait.now > timeout
               THEN [wait EXCEPT !.elapsed = wait.now, !.pc = "returned", !.result = "timeout"]
               ELSE [wait EXCEPT !.elapsed = wait.now, !.pc = "fetch"]
    /\ UNCHANGED <<cfg, activate, asgs, lbs, apps, nextID, st, disk, plan, warnings, pc, idx,
                   asgNameToID, existingByName, stateModified, log, saves, runs, live0,
                   planLog, ledgerOp, resolve>>

\* GetAutoScalingGroup returns after d seconds, and the "if err != nil"
WaitFetch ==
    /\ wait.pc = "fetch"
    /\ \E r \in FetchResults, d \in 0..MaxFetchSeconds :
          wait' = IF r = "ok"
                  THEN [wait EXCEPT !.now = wait.now + d, !.fetched = r, !.pc = "sleep"]
                  ELSE [wait EXCEPT !.now = wait.now + d, !.fetched = r, !.pc = "returned",
                                    !.result = resultOfError(r)]
    /\ UNCHANGED <<cfg, activate, asgs, lbs, apps, nextID, st, disk, plan, warnings, pc, idx,
                   asgNameToID, existingByName, stateModified, log, saves, runs, live0,
                   planLog, ledgerOp, resolve>>

\* time.Sleep(pollInterval)
WaitSleep ==
    /\ wait.pc = "sleep"
    /\ wait' = [wait EXCEPT !.now = wait.now + pollInterval, !.pc = "check"]
    /\ UNCHANGED <<cfg, activate, asgs, lbs, apps, nextID, st, disk, plan, warnings, pc, idx,
                   asgNameToID, existingByName, stateModified, log, saves, runs, live0,
                   planLog, ledgerOp, resolve>>

NextWait ==
    \/ WaitCheck
    \/ WaitFetch
    \/ WaitSleep

\* every fetch returns and every sleep ends
WaitSpec == InitWait /\ [][NextWait]_vars /\ WF_vars(NextWait)

----------------------------------------------------------------------------
Next ==
    \/ CreatePlan
    \/ CreatePlanFails
    \/ ApplyStart
    \/ DeleteLB
    \/ DeleteASG
    \/ CreateASG
    \/ CreateLB
    \/ StageDone
    \/ ApplyApp
    \/ ApplyFinish

Spec == Init /\ [][Next]_vars

----------------------------------------------------------------------------
(* Applications whose version listing spans more than one page *)

\* the specs of the configs and of the latest versions of these applications
LongSpecs == {spec0, [spec0 EXCEPT !.Image = "img:2"], [spec0 EXCEPT !.CPU = 1000]}

\* one application with a history of one version, of a full page, or of one
\* version more than a page
InitPaging ==
    /\ \E spec \in LongSpecs :
          cfg = [AutoScalingGroups |-> <<>>, LoadBalancers |-> <<>>,
                 Applications |-> <<AppConfig("X", spec)>>]
    /\ activate \in BOOLEAN
    /\ asgs = {}
    /\ lbs = {}
    /\ \E n \in {1, MaxItems, MaxItems + 1}, live \in LongSpecs :
          apps = {LiveApp(5, "X", History(n, live))}
    /\ disk = NoLedger
    /\ InitRest

\* CreatePlan and Apply with no infrastructure configured
NextApplications ==
    \/ CreatePlan
    \/ CreatePlanFails
    \/ ApplyStart
    \/ StageDone
    \/ ApplyApp
    \/ ApplyFinish

PagingSpec == InitPaging /\ [][NextApplications]_vars

----------------------------------------------------------------------------
(* resolveClusterID: src/provisioner/sync.go *)

\* most pages the cluster listing has
MaxClusterPages == 2

\* most clusters one page of the listing holds
MaxPageClusters == 2

\* the names of the clusters of the account, and the names a config may give
ClusterNames == {"c1", "c2"}
ConfiguredClusterNames == {"c1", "c3"}

\* the pages of clusters ListClusters may return
ClusterPages == UNION {[1..n -> ClusterNames] : n \in 0..MaxPageClusters}

\* the listings: one page after the other, each but the last with a NextCursor
ClusterListings == UNION {[1..n -> ClusterPages] : n \in 1..MaxClusterPages}

\* a resolution that looks at the first page only
firstPageOnly(cursor, pages) == FALSE

\* "if resp.NextCursor.Set": the page listed is not the last one
nextCursorSet(cursor, pages) == cursor < Len(pages)

\* CreatePlan is called: cursor is unset, one application is configured and it
\* may be live
InitClusters ==
    /\ cfg = [AutoScalingGroups |-> <<>>, LoadBalancers |-> <<>>,
              Applications |-> <<AppConfig("X", spec0)>>]
    /\ activate \in BOOLEAN
    /\ asgs = {}
    /\ lbs = {}
    /\ \E n \in 0..1 : apps = {LiveApp(5, "X", History(1, [spec0 EXCEPT !.CPU = 1000])) : k \in 1..n}
    /\ disk = NoLedger
    /\ nextID = 10
    /\ st = NoLedger
    /\ plan = EmptyPlan
    /\ warnings = <<>>
    /\ pc = "idle"
    /\ idx = 1
    /\ asgNameToID = [n \in {} |-> 0]
    /\ existingByName = {}
    /\ stateModified = FALSE
    /\ log = <<>>
    /\ saves = 0
    /\ runs = 0
    /\ live0 = [asgs |-> {}, lbs |-> {}, apps |-> {}, ledger |-> NoLedger]
    /\ planLog = <<>>
    /\ wait = NotWaiting
    /\ ledgerOp = NoLedgerOp
    /\ \E name \in ConfiguredClusterNames, pages \in ClusterListings :
          resolve = [pc |-> "list", clusterName |-> name, pages |-> pages, cursor |-> 1,
                     calls |-> 0, err |-> <<>>]

\* resolveClusterID, one iteration of its loop: ListClusters for the cursor,
\* the scan of the page, and the NextCursor
ListClusters ==
    /\ resolve.pc = "list"
    /\ \E ok \in BOOLEAN :
          LET page == resolve.pages[resolve.cursor]
              called == [resolve EXCEPT !.calls = resolve.calls + 1]
          IN resolve' =
                IF ~ok
                THEN [called EXCEPT !.pc = "error", !.err = <<"failed to list clusters">>]
                ELSE IF \E i \in DOMAIN page : page[i] = resolve.clusterName
                THEN [called EXCEPT !.pc = "found"]
                ELSE IF nextCursorSet(resolve.cursor, resolve.pages)
                THEN [called EXCEPT !.cursor = resolve.cursor + 1]
                ELSE [called EXCEPT !.pc = "notFound",
                                    !.err = <<"cluster not found", resolve.clusterName>>]
    /\ UNCHANGED <<cfg, activate, asgs, lbs, apps, nextID, st, disk, plan, warnings, pc, idx,
                   asgNameToID, existingByName, stateModified, log, saves, runs, live0,
                   planLog, wait, ledgerOp>>

\* CreatePlan goes on with the cluster id; its planLog counts the listing of
\* the clusters as one operation
PlanResolved ==
    /\ resolve.pc = "found"
    /\ CreatePlan

\* "if err != nil { return nil, fmt.Errorf("failed to resolve cluster: %w", err) }"
PlanUnresolved ==
    /\ resolve.pc \in {"notFound", "error"}
    /\ pc = "idle"
    /\ plan' = EmptyPlan
    /\ warnings' = <<>>
    /\ planLog' = [k \in 1..resolve.calls |-> "ListClusters"]
    /\ st' = disk
    /\ runs' = runs + 1
    /\ pc' = "planFailed"
    /\ log' = <<>>
    /\ live0' = [asgs |-> asgs, lbs |-> lbs, apps |-> apps, ledger |-> disk]
    /\ UNCHANGED <<cfg, activate, asgs, lbs, apps, nextID, disk, idx, asgNameToID, existingByName,
                   stateModified, saves, wait, ledgerOp, resolve>>

NextClusters ==
    \/ ListClusters
    \/ PlanResolved
    \/ PlanUnresolved
    \/ ApplyStart
    \/ StageDone
    \/ ApplyApp
    \/ ApplyFinish

ClusterSpec == InitClusters /\ [][NextClusters]_vars

----------------------------------------------------------------------------
(* Applications whose scaling settings and exposed ports vary *)

cpuScaled ==
    [spec0 EXCEPT !.ScalingMode = "cpu", !.FixedScale = NoInt, !.MinScale = Opt(1),
                  !.MaxScale = Opt(3)]

\* manual and cpu scaling, each with the fields of its own mode changed and
\* with a field of the other mode set
ScalingSpecs ==
    {spec0, [spec0 EXCEPT !.FixedScale = Opt(2)], [spec0 EXCEPT !.MinScale = Opt(2)],
     [spec0 EXCEPT !.ScaleOutThreshold = Opt(80)],
     cpuScaled, [cpuScaled EXCEPT !.MinScale = Opt(2)], [cpuScaled EXCEPT !.MaxScale = Opt(4)],
     [cpuScaled EXCEPT !.ScaleInThreshold = Opt(30)],
     [cpuScaled EXCEPT !.ScaleOutThreshold = Opt(80)],
     [cpuScaled EXCEPT !.ScaleOutThreshold = Opt(90)],
     [cpuScaled EXCEPT !.FixedScale = Opt(2)]}

port80Hosts(hosts) == [port80 EXCEPT !.Host = hosts]

port443 == [port80 EXCEPT !.TargetPort = 443, !.UseLetsEncrypt = TRUE]

\* the same two ports in both orders, the host names of one in both orders,
\* and a port changed
PortSpecs ==
    {[spec0 EXCEPT !.ExposedPorts = <<port80Hosts(<<"a", "b">>), port443>>],
     [spec0 EXCEPT !.ExposedPorts = <<port443, port80Hosts(<<"a", "b">>)>>],
     [spec0 EXCEPT !.ExposedPorts = <<port80Hosts(<<"b", "a">>), port443>>],
     [spec0 EXCEPT !.ExposedPorts = <<port80Hosts(<<"a">>), port443>>]}

\* one application, live with one version, config and version of every shape
InitComparison ==
    /\ \E spec \in ScalingSpecs \cup PortSpecs :
          cfg = [AutoScalingGroups |-> <<>>, LoadBalancers |-> <<>>,
                 Applications |-> <<AppConfig("X", spec)>>]
    /\ activate \in BOOLEAN
    /\ asgs = {}
    /\ lbs = {}
    /\ \E live \in ScalingSpecs \cup PortSpecs : apps = {LiveApp(5, "X", History(1, live))}
    /\ disk = NoLedger
    /\ InitRest

ComparisonSpec == InitComparison /\ [][NextApplications]_vars

----------------------------------------------------------------------------
(* Applications that are deleted by someone else after the plan was computed *)

\* one or two applications configured, X live with or without a version
InitDrift ==
    /\ \E more \in {<<>>, <<AppConfig("Y", spec0)>>} :
          cfg = [AutoScalingGroups |-> <<>>, LoadBalancers |-> <<>>,
                 Applications |-> <<AppConfig("X", spec0)>> \o more]
    /\ activate \in BOOLEAN
    /\ asgs = {}
    /\ lbs = {}
    /\ \E n \in 0..1, live \in LongSpecs : apps = {LiveApp(5, "X", History(n, live))}
    /\ disk = NoLedger
    /\ InitRest

\* the gateway: an application is deleted between CreatePlan and Apply
ApplicationDeleted ==
    /\ pc = "planned"
    /\ \E a \in apps : apps' = apps \ {a}
    /\ UNCHANGED <<cfg, activate, asgs, lbs, nextID, st, disk, plan, warnings, pc, idx,
                   asgNameToID, existingByName, stateModified, log, saves, runs, live0,
                   planLog, wait, ledgerOp, resolve>>

NextDrift ==
    \/ ApplicationDeleted
    \/ CreatePlan
    \/ CreatePlanFails
    \/ ApplyStart
    \/ StageDone
    \/ ApplyApp
    \/ ApplyFinish

DriftSpec == InitDrift /\ [][NextDrift]_vars

----------------------------------------------------------------------------
(* Properties *)

\* positions of log holding the call op issued for the act-th action of its list
IssuedAt(op, act) == {p \in DOMAIN log : log[p].op = op /\ log[p].act = act}

\* a CreatePlan has returned a plan, and log holds what Apply did with it since
HavePlan == pc \notin {"idle", "planFailed"}

\* the pairs <<ja, jl>>: a Recreate of an ASG and a Recreate of a LoadBalancer it owns
RecreatePairs ==
    {pr \in (DOMAIN plan.ASGActions) \X (DOMAIN plan.LBActions) :
        /\ plan.ASGActions[pr[1]].Action = "recreate"
        /\ plan.LBActions[pr[2]].Action = "recreate"
        /\ plan.LBActions[pr[2]].ASGName = plan.ASGActions[pr[1]].Name}

C2_NoLBOutlivesASG ==
    \A p \in DOMAIN log :
        (log[p].op = "DeleteAutoScalingGroup" /\ log[p].ok) => log[p].lbsUnder = {}

\* the live ASGs (as CreatePlan read them) the config does not name
OrphanASGs ==
    {a \in live0.asgs :
        \A i \in DOMAIN cfg.AutoScalingGroups : cfg.AutoScalingGroups[i].Name # a.Name}

\* C3: for every live ASG the config does not name the plan holds exactly one
\* action, a Skip; Apply issues no delete and no create for it, and it stays live.
C3_OrphanASGSkipped ==
    HavePlan =>
        \A a \in OrphanASGs :
            LET mine == {j \in DOMAIN plan.ASGActions : plan.ASGActions[j].Name = a.Name}
            IN /\ Cardinality(mine) = 1
               /\ \A j \in mine : plan.ASGActions[j].Action = "skip"
               /\ \A p \in DOMAIN log :
                     log[p].op \in {"DeleteAutoScalingGroup", "CreateAutoScalingGroup"}
                        => log[p].name # a.Name /\ log[p].id # a.AutoScalingGroupID
               /\ a \in asgs

\* C3 witness: an Apply that changed other infrastructure ended, an orphan ASG
\* being live
C3_Witness ==
    /\ pc = "done"
    /\ OrphanASGs # {}
    /\ \E p \in DOMAIN log : log[p].op = "CreateAutoScalingGroup" /\ log[p].ok

\* the live LoadBalancers (as CreatePlan read them, under a live ASG) the config
\* does not name under that ASG
OrphanLBs ==
    {l \in live0.lbs :
        \E a \in live0.asgs :
            /\ a.AutoScalingGroupID = l.AutoScalingGroupID
            /\ \A i \in DOMAIN cfg.LoadBalancers :
                  ~(/\ cfg.LoadBalancers[i].Name = l.Name
                    /\ cfg.LoadBalancers[i].AutoScalingGroupName = a.Name)}

OwnerName(l) == (CHOOSE a \in live0.asgs : a.AutoScalingGroupID = l.AutoScalingGroupID).Name

\* C4: for every live LoadBalancer the config does not name, the plan holds a
\* Skip action and no other action, and Apply issues no delete for it.
C4_OrphanLBSkipped ==
    HavePlan =>
        \A l \in OrphanLBs :
            LET mine == {j \in DOMAIN plan.LBActions :
                            /\ plan.LBActions[j].Name = l.Name
                            /\ plan.LBActions[j].ASGName = OwnerName(l)}
            IN /\ mine # {}
               /\ \A j \in mine : plan.LBActions[j].Action = "skip"
               /\ \A p \in DOMAIN log :
                     log[p].op = "DeleteLoadBalancer" => log[p].id # l.LoadBalancerID

\* the live applications (as CreatePlan read them) the config does not name
OrphanApps ==
    {a \in live0.apps : \A i \in DOMAIN cfg.Applications : cfg.Applications[i].Name # a.Name}

\* C5: for every live application the config does not name, the plan holds no
\* action, CreatePlan logged exactly one warning, and Apply issues no call for
\* it: it stays as it was.
C5_OrphanAppWarned ==
    HavePlan =>
        \A a \in OrphanApps :
            /\ \A j \in DOMAIN plan.Actions : plan.Actions[j].ApplicationName # a.Name
            /\ Cardinality({i \in DOMAIN warnings : warnings[i] = a.Name}) = 1
            /\ \A p \in DOMAIN log :
                  log[p].stage = "apps" => log[p].name # a.Name /\ log[p].id # a.ApplicationID
            /\ a \in apps

\* C5 witness: an Apply that created a version for a configured application
\* ended, an orphan application being live
C5_Witness ==
    /\ pc = "done"
    /\ OrphanApps # {}
    /\ \E p \in DOMAIN log : log[p].op = "CreateApplicationVersion" /\ log[p].ok

\* the compared settings of an ASG (live or configured), optionals defaulted
ASGSettings(x) ==
    LET m == ByIdx(x.Interfaces)
    IN [Zone |-> x.Zone, WorkerServiceClassPath |-> x.WorkerServiceClassPath,
        MinNodes |-> x.MinNodes, MaxNodes |-> x.MaxNodes, NameServers |-> x.NameServers,
        Count |-> Len(x.Interfaces),
        Interfaces |-> [k \in DOMAIN m |->
            [Upstream |-> m[k].Upstream, ConnectsToLB |-> m[k].ConnectsToLB,
             NetmaskLen |-> OptOr(m[k].NetmaskLen, 0), DefaultGateway |-> OptOr(m[k].DefaultGateway, ""),
             PacketFilterID |-> OptOr(m[k].PacketFilterID, ""), IpPool |-> m[k].IpPool]]]

\* the compared settings of a LoadBalancer (live or configured), optionals defaulted
LBSettings(x) ==
    LET m == ByIdx(x.Interfaces)
    IN [ServiceClassPath |-> x.ServiceClassPath, NameServers |-> x.NameServers,
        Count |-> Len(x.Interfaces),
        Interfaces |-> [k \in DOMAIN m |->
            [Upstream |-> m[k].Upstream, NetmaskLen |-> OptOr(m[k].NetmaskLen, 0),
             DefaultGateway |-> OptOr(m[k].DefaultGateway, ""), Vip |-> OptOr(m[k].Vip, ""),
             VirtualRouterID |-> OptOr(m[k].VirtualRouterID, 0),
             PacketFilterID |-> OptOr(m[k].PacketFilterID, ""), IpPool |-> m[k].IpPool]]]

\* <<i, a>>: the i-th configured ASG is live as a with other settings
DifferingASGs ==
    {pr \in (DOMAIN cfg.AutoScalingGroups) \X live0.asgs :
        /\ pr[2].Name = cfg.AutoScalingGroups[pr[1]].Name
        /\ ASGSettings(pr[2]) # ASGSettings(cfg.AutoScalingGroups[pr[1]])}

\* <<i, l>>: the i-th configured LoadBalancer is live as l with other settings
DifferingLBs ==
    {pr \in (DOMAIN cfg.LoadBalancers) \X live0.lbs :
        /\ pr[2].Name = cfg.LoadBalancers[pr[1]].Name
        /\ \E a \in live0.asgs : /\ a.AutoScalingGroupID = pr[2].AutoScalingGroupID
                                 /\ a.Name = cfg.LoadBalancers[pr[1]].AutoScalingGroupName
        /\ LBSettings(pr[2]) # LBSettings(cfg.LoadBalancers[pr[1]])}

\* what C6 asks of one differing resource: planned is its action, deletes and
\* creates the positions of log with the calls issued for it, req the request
\* the desired config gives
RecreatedOnce(planned, existingID, deletes, creates, req) ==
    /\ planned.Action = "recreate"
    /\ planned.ExistingID = Opt(existingID)
    /\ Cardinality(deletes) <= 1
    /\ Cardinality(creates) <= 1
    /\ \A p \in deletes : log[p].id = existingID
    /\ \A q \in creates : log[q].req = req /\ \E p \in deletes : p < q /\ log[p].ok
    /\ pc = "done" => Cardinality(deletes) = 1 /\ Cardinality(creates) = 1

\* C6: an ASG or LoadBalancer that is live with settings other than the
\* configured ones is planned Recreate with its id; Apply issues for it at most
\* one delete (of that id) and at most one create (of the configured settings),
\* the create after the delete succeeded, both when Apply succeeds; the only
\* calls on these resources are deletes and creates.
C6_DifferingRecreated ==
    HavePlan =>
        /\ \A pr \in DifferingASGs :
              RecreatedOnce(plan.ASGActions[pr[1]], pr[2].AutoScalingGroupID,
                            IssuedAt("DeleteAutoScalingGroup", pr[1]),
                            IssuedAt("CreateAutoScalingGroup", pr[1]),
                            buildCreateASGRequest(cfg.AutoScalingGroups[pr[1]]))
        /\ \A pr \in DifferingLBs :
              RecreatedOnce(plan.LBActions[pr[1]], pr[2].LoadBalancerID,
                            IssuedAt("DeleteLoadBalancer", pr[1]),
                            IssuedAt("CreateLoadBalancer", pr[1]),
                            buildCreateLBRequest(cfg.LoadBalancers[pr[1]]))
        /\ \A p \in DOMAIN log :
              log[p].stage \in {"lbDelete", "asgDelete", "asgCreate", "lbCreate"}
                 => log[p].op \in {"DeleteLoadBalancer", "DeleteAutoScalingGroup",
                                   "CreateAutoScalingGroup", "CreateLoadBalancer"}

\* C6 witness: an Apply that recreated a differing LoadBalancer ended well
C6_Witness ==
    /\ pc = "done"
    /\ \E pr \in DifferingLBs :
          /\ \E p \in IssuedAt("DeleteLoadBalancer", pr[1]) : log[p].ok
          /\ \E p \in IssuedAt("CreateLoadBalancer", pr[1]) : log[p].ok
    /\ RecreatePairs = {}

\* the version of an application with the highest number
LatestOf(app) ==
    CHOOSE v \in Range(app.Versions) : \A w \in Range(app.Versions) : w.Version <= v.Version

LedgerAgrees(s, appName, spec) ==
    /\ GetPasswordVersion(s, appName) = spec.RegistryPasswordVersion
    /\ \A i \in DOMAIN spec.Env :
          (spec.Env[i].Secret /\ spec.Env[i].SecretVersion.Set) =>
              GetSecretEnvVersion(s, appName, spec.Env[i].Key) = spec.Env[i].SecretVersion

\* the spec names another image than the version, and with the version's
\* image it describes exactly that version
OnlyImageDiffers(spec, version) ==
    /\ spec.Image # version.Image
    /\ VersionDetail(buildCreateVersionRequest([spec EXCEPT !.Image = version.Image]),
                     version.Version) = version

\* <<i, a>>: the i-th configured application is live as a, and its spec differs
\* from a's latest version in the image only
ImageOnlyApps ==
    {pr \in (DOMAIN cfg.Applications) \X live0.apps :
        /\ pr[2].Name = cfg.Applications[pr[1]].Name
        /\ pr[2].Versions # <<>>
        /\ OnlyImageDiffers(cfg.Applications[pr[1]].Spec, LatestOf(pr[2]))
        /\ LedgerAgrees(st, pr[2].Name, cfg.Applications[pr[1]].Spec)}

C9_ReplanAllNoop ==
    pc = "done" =>
        LET again == planApplications(disk, apps, {a.Name : a \in apps}, cfg.Applications).Actions
        IN \A j \in DOMAIN again : again[j].Action = "noop"

\* C10: a failed gateway call is the last call of its Apply, which has ended
\* with an error; what the earlier calls created or deleted stays so.
C10_FailureStops ==
    /\ \A p \in DOMAIN log : ~log[p].ok => p = Len(log) /\ pc = "failed"
    /\ pc = "failed" =>
          \A p \in DOMAIN log :
              /\ (log[p].op = "DeleteAutoScalingGroup" /\ log[p].ok)
                    => \A a \in asgs : a.AutoScalingGroupID # log[p].id
              /\ (log[p].op = "CreateAutoScalingGroup" /\ log[p].ok)
                    => \E a \in asgs : a.AutoScalingGroupID = log[p].id
              /\ (log[p].op = "DeleteLoadBalancer" /\ log[p].ok)
                    => \A l \in lbs : l.LoadBalancerID # log[p].id

\* C10 witness: Apply deleted a LoadBalancer and an ASG, then a create failed
C10_Witness ==
    /\ pc = "failed"
    /\ Len(log) >= 3
    /\ log[Len(log)].op = "CreateAutoScalingGroup" /\ ~log[Len(log)].ok
    /\ \E p \in DOMAIN log : log[p].op = "DeleteLoadBalancer" /\ log[p].ok
    /\ \E p \in DOMAIN log : log[p].op = "DeleteAutoScalingGroup" /\ log[p].ok

----------------------------------------------------------------------------
(* C11 *)

\* the gateway operations that read
ReadOperations ==
    {"ListClusters", "ListApplications", "ListApplicationVersions", "GetApplicationVersion",
     "ListAutoScalingGroups", "ListLoadBalancers", "GetLoadBalancer"}

\* the positions of the run at which Apply is executing a plan
ApplyPositions == {"planned", "lbDelete", "asgDelete", "asgCreate", "lbCreate", "apps"}

\* C11: planning is read-only.  A CreatePlan step issues only list and get
\* operations, leaves the gateway's resources and the stored ledger as they
\* were and hands Apply the ledger as stored; every change of a gateway
\* resource or of the ledger is a step of Apply on a plan already computed.
C11_PlanningReadOnly ==
    [][/\ runs' # runs =>
            /\ \A i \in DOMAIN planLog' : planLog'[i] \in ReadOperations
            /\ asgs' = asgs /\ lbs' = lbs /\ apps' = apps
            /\ disk' = disk /\ st' = disk
       /\ (asgs' # asgs \/ lbs' # lbs \/ apps' # apps \/ disk' # disk
           \/ (st' # st /\ runs' = runs)) =>
            /\ pc \in ApplyPositions
            /\ plan' = plan
            /\ runs' = runs]_vars

\* a plan over live groups, LoadBalancers and application versions was
\* computed, and it holds infrastructure changes
C11_Witness ==
    /\ pc = "planned"
    /\ \E i \in DOMAIN planLog : planLog[i] = "GetLoadBalancer"
    /\ \E i \in DOMAIN planLog : planLog[i] = "GetApplicationVersion"
    /\ \E i \in DOMAIN plan.LBActions : plan.LBActions[i].Action = "recreate"
    /\ \E i \in DOMAIN plan.ASGActions : plan.ASGActions[i].Action = "create"

----------------------------------------------------------------------------
(* C12 *)

PasswordChangeTags ==
    {"RegistryPasswordVersion (new) ->", "RegistryPasswordVersion", "RegistryPasswordVersion -> (removed)"}

\* the secret version the spec asks for under key k: that of the entry of the
\* key when it is a secret, absent otherwise
DesiredSecretVersion(spec, k) ==
    IF \E i \in DOMAIN spec.Env : spec.Env[i].Key = k
    THEN LET e == spec.Env[LastIndex([n \in DOMAIN spec.Env |-> KeyOf(spec.Env[n])], k)]
         IN IF e.Secret THEN e.SecretVersion ELSE NoInt
    ELSE NoInt

\* the keys that have a secret version in the spec or in the ledger s
SecretKeys(s, appName, spec) ==
    {spec.Env[i].Key : i \in {j \in DOMAIN spec.Env : spec.Env[j].Secret}}
    \cup (IF appName \in DOMAIN s THEN DOMAIN s[appName].SecretEnvVersions ELSE {})

\* the change list reports something about the environment variable k
ReportsKey(changes, k) ==
    \E i \in DOMAIN changes :
        /\ changes[i][1] \in {"Env add", "Env update", "Env remove"}
        /\ changes[i][2] = k

\* the change list reports a change of the secret version of k
ReportsSecretVersion(changes, k) ==
    \E i \in DOMAIN changes :
        /\ changes[i][1] = "Env update"
        /\ changes[i][2] = k
        /\ changes[i][3] \in {"secret version new", "secret version"}

\* the planned actions of the applications that are live with a version
PlannedExisting ==
    {i \in DOMAIN plan.Actions :
        \E x \in live0.apps : x.Name = plan.Actions[i].ApplicationName /\ Len(x.Versions) > 0}

\* C12: for an existing application the plan reports a change of the registry
\* password version, and of the secret version of each environment variable,
\* exactly when the desired version and the ledger's differ (new, updated,
\* removed), and none when both are equal or both absent.
C12_VersionChangesReported ==
    pc = "planned" =>
        \A i \in PlannedExisting :
            LET changes == plan.Actions[i].Changes
                name == cfg.Applications[i].Name
                spec == cfg.Applications[i].Spec
            IN /\ (\E j \in DOMAIN changes : changes[j][1] \in PasswordChangeTags)
                      <=> (spec.RegistryPasswordVersion # GetPasswordVersion(st, name))
               /\ \A k \in SecretKeys(st, name, spec) :
                      IF DesiredSecretVersion(spec, k) # GetSecretEnvVersion(st, name, k)
                      THEN ReportsKey(changes, k)
                      ELSE ~ReportsSecretVersion(changes, k)

----------------------------------------------------------------------------
(* C13 *)

\* the planned actions that create or update an application of the config
AppliedActions ==
    {i \in DOMAIN plan.Actions : plan.Actions[i].Action \in {"create", "update"}}

\* the ledger s holds for the application exactly the versions its spec asks for
LedgerHoldsExactly(s, appName, spec) ==
    /\ GetPasswordVersion(s, appName) = spec.RegistryPasswordVersion
    /\ \A k \in SecretKeys(s, appName, spec) \cup {spec.Env[i].Key : i \in DOMAIN spec.Env} :
          GetSecretEnvVersion(s, appName, k) = DesiredSecretVersion(spec, k)

\* C13: after an Apply that returned success, for every application it created
\* or updated the ledger, in memory and as stored, holds exactly the desired
\* versions: the registry password version of the config (absent when it has
\* none) and, for every environment key, the desired secret version (absent
\* for keys that are not desired secrets).
C13_LedgerHoldsDesired ==
    pc = "done" =>
        \A i \in AppliedActions :
            /\ LedgerHoldsExactly(st, cfg.Applications[i].Name, cfg.Applications[i].Spec)
            /\ LedgerHoldsExactly(disk, cfg.Applications[i].Name, cfg.Applications[i].Spec)

----------------------------------------------------------------------------
(* C14 *)

\* C14: a step of Apply changes the ledger only as the end of an application
\* action all of whose gateway calls succeeded, and then only the entry of
\* that application; a step in which the action fails leaves the ledger as
\* it was.
C14_LedgerAfterSuccess ==
    [][/\ (st' # st /\ runs' = runs) =>
            /\ pc = "apps" /\ pc' = "apps"
            /\ Len(log') > Len(log)
            /\ \A p \in (Len(log) + 1)..Len(log') :
                  /\ log'[p].ok
                  /\ log'[p].name = plan.Actions[idx].ApplicationName
            /\ \A a \in (DOMAIN st \cup DOMAIN st') \ {plan.Actions[idx].ApplicationName} :
                  a \in DOMAIN st /\ a \in DOMAIN st' /\ st'[a] = st[a]
       /\ (pc = "apps" /\ pc' = "failed") => st' = st]_vars

\* an update created the version, its activation failed, and the ledger still
\* lacks the registry password version the config asks for
C14_Witness ==
    /\ pc = "failed"
    /\ Len(log) >= 3
    /\ log[Len(log)].op = "UpdateApplication" /\ ~log[Len(log)].ok
    /\ log[Len(log) - 1].op = "CreateApplicationVersion" /\ log[Len(log) - 1].ok
    /\ \E i \in DOMAIN cfg.Applications :
          /\ cfg.Applications[i].Name = log[Len(log)].name
          /\ cfg.Applications[i].Spec.RegistryPasswordVersion.Set
          /\ GetPasswordVersion(st, cfg.Applications[i].Name)
                # cfg.Applications[i].Spec.RegistryPasswordVersion

----------------------------------------------------------------------------
(* C15 *)

\* C15: an Apply writes the ledger to storage at most once, and an Apply that
\* returned success has written it exactly when the value of some ledger entry
\* changed since the plan was computed.
C15_SaveIffChanged ==
    /\ saves <= 1
    /\ pc = "done" => (saves = 1 <=> st # live0.ledger)

----------------------------------------------------------------------------
(* C16 *)

\* the ledger s holds a secret-env version for the application
HasSecretEnvVersions(s, appName) ==
    appName \in DOMAIN s /\ DOMAIN s[appName].SecretEnvVersions # {}

\* C16: after SetPasswordVersion(app, v), GetPasswordVersion(app) returns v;
\* after setting it to absent the application's entry is gone exactly when no
\* secret-env version remains for it; and after any sequence of set operations
\* no entry of the ledger is without both a password version and a secret-env
\* version.
C16_LedgerRoundTrip ==
    /\ ledgerOp.op = "SetPasswordVersion" =>
          /\ GetPasswordVersion(st, ledgerOp.app) = ledgerOp.version
          /\ ~ledgerOp.version.Set =>
                (ledgerOp.app \notin DOMAIN st <=> ~HasSecretEnvVersions(ledgerOp.before, ledgerOp.app))
    /\ \A a \in DOMAIN st :
          st[a].RegistryPasswordVersion.Set \/ DOMAIN st[a].SecretEnvVersions # {}

\* the password version of an application that has secret-env versions was
\* set to absent: its entry stays, with the secret-env versions only
C16_Witness ==
    /\ ledgerOp.op = "SetPasswordVersion"
    /\ ~ledgerOp.version.Set
    /\ GetPasswordVersion(ledgerOp.before, ledgerOp.app).Set
    /\ HasSecretEnvVersions(ledgerOp.before, ledgerOp.app)
    /\ ledgerOp.app \in DOMAIN st

----------------------------------------------------------------------------
(* C17 *)

\* The claim as stated: the wait ends, the first fetch that returns any error
\* ends it reporting the group deleted, and it reports a timeout only once the
\* ceiling has passed with no fetch having failed.
C17_AnyErrorIsDeleted ==
    /\ <>(wait.pc = "returned")
    /\ [](/\ wait.fetched \in {"security", "error"} =>
                wait.pc = "returned" /\ wait.result = "deleted"
          /\ wait.result = "timeout" =>
                wait.elapsed > timeout /\ wait.fetched \notin {"security", "error"})

\* C17: the wait for the deletion of an AutoScalingGroup always ends.  The
\* first fetch that returns an error ends it: with a failure when the error
\* is a security error, reporting the group deleted for any other error.  It
\* ends with a timeout failure when, no fetch having failed, more than the
\* ceiling has elapsed at the top of the loop.
C17_WaitTerminates ==
    /\ <>(wait.pc = "returned")
    /\ [](/\ wait.fetched = "error" => wait.pc = "returned" /\ wait.result = "deleted"
          /\ wait.fetched = "security" => wait.pc = "returned" /\ wait.result = "failed"
          /\ wait.result = "timeout" =>
                /\ wait.pc = "returned"
                /\ wait.elapsed > timeout
                /\ wait.fetched = "ok"
          /\ wait.pc = "returned" => wait.result \in {"deleted", "failed", "timeout"})

\* the wait has polled for the whole ceiling and returned the timeout
C17_Witness ==
    /\ wait.pc = "returned"
    /\ wait.result = "timeout"
    /\ wait.elapsed > timeout

----------------------------------------------------------------------------
(* C18 *)

\* the application with its latest version as its only version
WithLatestOnly(app) == [app EXCEPT !.Versions = <<LatestOf(app)>>]

\* C18: the plan is computed from complete listings.  Every live application
\* is planned or warned about, every live ASG and LoadBalancer is planned, and
\* the action planned for a live application, and the version an update
\* creates, are those computed from the version with the highest number among
\* all versions of the application.
C18_ListingsComplete ==
    pc \in ApplyPositions \cup {"done", "failed"} =>
        /\ \A a \in live0.apps :
              \/ \E i \in DOMAIN plan.Actions : plan.Actions[i].ApplicationName = a.Name
              \/ \E i \in DOMAIN warnings : warnings[i] = a.Name
        /\ \A g \in live0.asgs : \E i \in DOMAIN plan.ASGActions : plan.ASGActions[i].Name = g.Name
        /\ \A l \in live0.lbs : \E i \in DOMAIN plan.LBActions : plan.LBActions[i].Name = l.Name
        /\ \A i \in PlannedExisting :
              LET x == CHOOSE a \in live0.apps : a.Name = plan.Actions[i].ApplicationName
              IN plan.Actions[i] = planUpdate(live0.ledger, WithLatestOnly(x), cfg.Applications[i])
        /\ \A p \in DOMAIN log :
              (/\ log[p].op = "CreateApplicationVersion"
               /\ plan.Actions[log[p].act].Action = "update"
               /\ log[p].act \in PlannedExisting) =>
                  LET x == CHOOSE a \in live0.apps : a.Name = log[p].name
                  IN log[p].req = buildCreateVersionRequestWithBase(
                                      cfg.Applications[log[p].act].Spec, Opt(LatestOf(x)))

----------------------------------------------------------------------------
(* C19 *)

\* the application of that id as the last CreatePlan saw it: its active
\* version and the number of its versions (none for an application not yet live)
ActiveBefore(id) ==
    IF \E b \in live0.apps : b.ApplicationID = id
    THEN (CHOOSE b \in live0.apps : b.ApplicationID = id).ActiveVersion
    ELSE NoInt

VersionsBefore(id) ==
    IF \E b \in live0.apps : b.ApplicationID = id
    THEN Len((CHOOSE b \in live0.apps : b.ApplicationID = id).Versions)
    ELSE 0

\* C19: activation is an option of Apply.  Without it Apply issues no
\* activation, every application keeps the active version it had (none for a
\* created application), and each create or update still adds the version it
\* requested.  With it, each application whose create or update succeeded has
\* as active version the number of the version just created for it.
C19_ActivationOptional ==
    pc \in {"apps", "done", "failed"} =>
        /\ \A p \in DOMAIN log :
              (log[p].op = "CreateApplicationVersion" /\ log[p].ok) =>
                  \E a \in apps :
                      /\ a.ApplicationID = log[p].id
                      /\ Len(a.Versions) = VersionsBefore(log[p].id) + 1
                      /\ a.Versions[Len(a.Versions)]
                            = VersionDetail(log[p].req, VersionsBefore(log[p].id) + 1)
        /\ ~activate =>
              /\ \A p \in DOMAIN log : log[p].op # "UpdateApplication"
              /\ \A a \in apps : a.ActiveVersion = ActiveBefore(a.ApplicationID)
        /\ activate =>
              \A p \in DOMAIN log :
                  (log[p].op = "UpdateApplication" /\ log[p].ok) =>
                      /\ p > 1
                      /\ log[p - 1].op = "CreateApplicationVersion" /\ log[p - 1].ok
                      /\ log[p - 1].id = log[p].id
                      /\ \E a \in apps :
                            /\ a.ApplicationID = log[p].id
                            /\ a.ActiveVersion = Opt(VersionsBefore(log[p].id) + 1)

\* an Apply without activation updated an application whose version 1 was
\* active: the new version exists and version 1 is still the active one
C19_Witness ==
    /\ pc = "done"
    /\ ~activate
    /\ \E p \in DOMAIN log, a \in apps :
          /\ log[p].op = "CreateApplicationVersion" /\ log[p].ok
          /\ plan.Actions[log[p].act].Action = "update"
          /\ a.ApplicationID = log[p].id
          /\ ActiveBefore(a.ApplicationID) = Opt(1)
          /\ a.ActiveVersion = Opt(1)
          /\ Len(a.Versions) > 2

----------------------------------------------------------------------------
(* C20 *)

\* the request carries the values of the spec, field by field
CarriesSpec(req, spec) ==
    /\ req.Image = spec.Image
    /\ req.CPU = spec.CPU /\ req.Memory = spec.Memory /\ req.ScalingMode = spec.ScalingMode
    /\ req.FixedScale = spec.FixedScale
    /\ req.MinScale = spec.MinScale /\ req.MaxScale = spec.MaxScale
    /\ req.ScaleInThreshold = spec.ScaleInThreshold
    /\ req.ScaleOutThreshold = spec.ScaleOutThreshold
    /\ req.Cmd = spec.Cmd
    /\ req.RegistryUsername = spec.RegistryUsername
    /\ req.RegistryPassword = spec.RegistryPassword
    /\ Len(req.ExposedPorts) = Len(spec.ExposedPorts)
    /\ \A k \in DOMAIN spec.ExposedPorts :
          /\ req.ExposedPorts[k].TargetPort = spec.ExposedPorts[k].TargetPort
          /\ req.ExposedPorts[k].LoadBalancerPort = spec.ExposedPorts[k].LoadBalancerPort
          /\ req.ExposedPorts[k].UseLetsEncrypt = spec.ExposedPorts[k].UseLetsEncrypt
          /\ req.ExposedPorts[k].Host = spec.ExposedPorts[k].Host
          /\ req.ExposedPorts[k].HealthCheck = spec.ExposedPorts[k].HealthCheck
    /\ Len(req.Env) = Len(spec.Env)
    /\ \A k \in DOMAIN spec.Env :
          /\ req.Env[k].Key = spec.Env[k].Key
          /\ req.Env[k].Secret = spec.Env[k].Secret
          /\ req.Env[k].Value = spec.Env[k].Value

\* the configured applications that were not live when the plan was computed
NewApplications ==
    {i \in DOMAIN cfg.Applications :
        \A a \in live0.apps : a.Name # cfg.Applications[i].Name}

\* the positions in the log of the calls of that operation for that application
CallsOf(op, name) == {p \in DOMAIN log : log[p].op = op /\ log[p].name = name}

\* C20: a configured application that is not live is planned as one Create
\* action.  Apply issues for it at most one create-application call and, right
\* after it succeeded, at most one create-version call, which carries exactly
\* the desired values with the image of the config; the version it creates is
\* number 1 of the new application.  An Apply that returned success has
\* issued both, and with activation the active version is 1.
C20_CreateNewApplication ==
    pc \in ApplyPositions \cup {"done", "failed"} =>
        \A i \in NewApplications :
            LET name == cfg.Applications[i].Name
                spec == cfg.Applications[i].Spec
                creates == CallsOf("CreateApplication", name)
                versions == CallsOf("CreateApplicationVersion", name)
            IN /\ plan.Actions[i].ApplicationName = name
               /\ plan.Actions[i].Action = "create"
               /\ Cardinality({j \in DOMAIN plan.Actions : plan.Actions[j].ApplicationName = name}) = 1
               /\ Cardinality(creates) <= 1
               /\ Cardinality(versions) <= 1
               /\ \A p \in versions :
                     /\ p - 1 \in creates
                     /\ log[p - 1].ok
                     /\ CarriesSpec(log[p].req, spec)
                     /\ log[p].ok =>
                           \E a \in apps :
                               /\ a.ApplicationID = log[p].id
                               /\ a.Name = name
                               /\ Len(a.Versions) = 1
                               /\ a.Versions[1].Version = 1
                               /\ a.Versions[1] = VersionDetail(log[p].req, 1)
               /\ pc = "done" =>
                     /\ Cardinality(creates) = 1
                     /\ Cardinality(versions) = 1
                     /\ activate => \E a \in apps : a.Name = name /\ a.ActiveVersion = Opt(1)

\* an Apply with activation created an application with a secret env var from
\* the config: its version 1 is active
C20_Witness ==
    /\ pc = "done"
    /\ activate
    /\ \E i \in NewApplications, a \in apps :
          /\ a.Name = cfg.Applications[i].Name
          /\ cfg.Applications[i].Spec.Env # <<>>
          /\ Len(a.Versions) = 1
          /\ a.ActiveVersion = Opt(1)

----------------------------------------------------------------------------
(* C21 *)

\* the live applications of that name, as the plan saw them
LiveNamed(name) == {a \in live0.apps : a.Name = name}

----------------------------------------------------------------------------
(* C22 *)

\* the entry of the application in the ledger, if it has one
LedgerEntry(s, appName) == IF appName \in DOMAIN s THEN {s[appName]} ELSE {}

\* the indexes of the actions planned Noop
NoopActions == {i \in DOMAIN plan.Actions : plan.Actions[i].Action = "noop"}

\* C22: at every point of an Apply, for an application planned Noop no
\* create-application, create-version or update-application call has been
\* issued, the live application is as the plan saw it (its versions and its
\* active version), and its ledger entries in memory and in the file are the
\* ones the plan read.
C22_NoopUntouched ==
    pc \in ApplyPositions \cup {"done", "failed"} =>
        \A i \in NoopActions :
            LET name == plan.Actions[i].ApplicationName
            IN /\ \A p \in DOMAIN log :
                     log[p].op \in {"CreateApplication", "CreateApplicationVersion", "UpdateApplication"}
                        => log[p].name # name
               /\ LiveNamed(name) = {a \in apps : a.Name = name}
               /\ LedgerEntry(st, name) = LedgerEntry(live0.ledger, name)
               /\ LedgerEntry(disk, name) = LedgerEntry(live0.ledger, name)

\* an Apply with activation created another application and saved the ledger,
\* the plan holding a Noop
C22_Witness ==
    /\ pc = "done"
    /\ activate
    /\ saves = 1
    /\ NoopActions # {}
    /\ \E p \in DOMAIN log : log[p].op = "UpdateApplication" /\ log[p].ok

----------------------------------------------------------------------------
(* C23 *)

\* no page of the listing holds a cluster of the configured name
ClusterAbsent ==
    \A i \in DOMAIN resolve.pages :
        \A k \in DOMAIN resolve.pages[i] : resolve.pages[i][k] # resolve.clusterName

\* C23: when no page of the cluster listing holds a cluster of the configured
\* name, the resolution never finds one; once every page has been listed it
\* ends with the error "cluster not found" naming the cluster, and it ends so
\* in no other case.  CreatePlan then returns no plan, Apply does not run, and
\* only ListClusters calls have been issued: the gateway is as it was.
C23_ClusterNotFound ==
    /\ (resolve.pc # "none" /\ ClusterAbsent) =>
          /\ resolve.pc \in {"list", "notFound", "error"}
          /\ pc \in {"idle", "planFailed"}
          /\ plan = EmptyPlan
          /\ log = <<>>
          /\ \A k \in DOMAIN planLog : planLog[k] = "ListClusters"
          /\ nextID = 10
          /\ pc = "planFailed" => apps = live0.apps
    /\ resolve.pc = "notFound" =>
          /\ ClusterAbsent
          /\ resolve.calls = Len(resolve.pages)
          /\ resolve.err = <<"cluster not found", resolve.clusterName>>

\* CreatePlan returned the error after a listing of two pages, the first one
\* holding another cluster
C23_Witness ==
    /\ resolve.pc = "notFound"
    /\ pc = "planFailed"
    /\ Len(resolve.pages) = 2
    /\ resolve.pages[1] # <<>>
    /\ Len(planLog) = 2

----------------------------------------------------------------------------
(* C24 *)

\* the tags of the changes compareVersion reports for a scaling field
ScalingTags(field) == {field, field \o " (unset) ->"}

ReportsScaling(changes, field) ==
    \E k \in DOMAIN changes : changes[k][1] \in ScalingTags(field)

\* the config sets the field to another value than the version has
ScalingDiffers(version, spec, field) == spec[field].Set /\ version[field] # spec[field]

\* C24: for an existing application the plan reports a change of the fixed
\* scale exactly when the desired mode is manual and the fixed scale differs,
\* and a change of the min scale, the max scale, the scale-in threshold or the
\* scale-out threshold exactly when the desired mode is cpu and that field
\* differs.
C24_ScalingComparedByMode ==
    pc = "planned" =>
        \A i \in PlannedExisting :
            \A x \in LiveNamed(cfg.Applications[i].Name) :
                LET changes == plan.Actions[i].Changes
                    spec == cfg.Applications[i].Spec
                    version == LatestOf(x)
                IN /\ ReportsScaling(changes, "FixedScale")
                         <=> (spec.ScalingMode = "manual" /\ ScalingDiffers(version, spec, "FixedScale"))
                   /\ \A f \in {"MinScale", "MaxScale", "ScaleInThreshold", "ScaleOutThreshold"} :
                         ReportsScaling(changes, f)
                            <=> (spec.ScalingMode = "cpu" /\ ScalingDiffers(version, spec, f))

----------------------------------------------------------------------------
(* C25 *)

\* a port with its host names as a set
NormalizedPort(p) == [p EXCEPT !.Host = Range(p.Host)]

\* the version is the one the spec describes, the image, the order of the
\* ports and the order of the host names of a port left aside
SameUpToOrder(version, spec) ==
    LET described == VersionDetail(buildCreateVersionRequest(spec), version.Version)
    IN /\ [described EXCEPT !.ExposedPorts = <<>>, !.Image = ""]
            = [version EXCEPT !.ExposedPorts = <<>>, !.Image = ""]
       /\ Len(described.ExposedPorts) = Len(version.ExposedPorts)
       /\ {NormalizedPort(p) : p \in Range(described.ExposedPorts)}
            = {NormalizedPort(p) : p \in Range(version.ExposedPorts)}

\* C25: an existing application whose latest version is the one the desired
\* spec describes, or differs from it only in the order of the exposed ports
\* or of the host names of a port, is planned with an empty change list.
C25_OrderIndependent ==
    pc = "planned" =>
        \A i \in PlannedExisting :
            \A x \in LiveNamed(cfg.Applications[i].Name) :
                (SameUpToOrder(LatestOf(x), cfg.Applications[i].Spec)
                 /\ LedgerAgrees(live0.ledger, x.Name, cfg.Applications[i].Spec))
                    => plan.Actions[i].Changes = <<>>

----------------------------------------------------------------------------
(* C26 *)

\* C26: the create call of an ASG planned Recreate is issued only after a
\* poll of the old ASG (GetAutoScalingGroup under its id) has reported it
\* deleted.
C26_CreateAfterDeletionObserved ==
    HavePlan =>
        \A p \in DOMAIN log :
            (log[p].op = "CreateAutoScalingGroup" /\ plan.ASGActions[log[p].act].Action = "recreate") =>
                \E q \in 1..(p - 1) :
                    /\ log[q].op = "GetAutoScalingGroup"
                    /\ log[q].id = plan.ASGActions[log[p].act].ExistingID.Value
                    /\ ~log[q].ok

----------------------------------------------------------------------------
(* C27 *)

\* the positions before p of the successful creations of an ASG of that name
ASGCreatedBefore(name, p) ==
    {q \in 1..(p - 1) : log[q].op = "CreateAutoScalingGroup" /\ log[q].name = name /\ log[q].ok}

----------------------------------------------------------------------------
(* C28 *)

\* the positions of a run inside Apply, and where Apply returned an error
InsideApply == {"lbDelete", "asgDelete", "asgCreate", "lbCreate", "apps", "failed", "panic"}

\* C28: while Apply runs, and when it has returned an error, the ledger file
\* has not been written: it is the one the plan read, whatever has changed in
\* memory.  When Apply has returned success every call it issued succeeded,
\* and the file differs from the one the plan read only through its one Save.
C28_LedgerSavedOnSuccessOnly ==
    /\ pc \in InsideApply => saves = 0 /\ disk = live0.ledger
    /\ pc = "done" =>
          /\ \A p \in DOMAIN log : log[p].ok
          /\ disk # live0.ledger => saves = 1

\* Apply returned an error after it had updated an application and changed
\* its ledger entry in memory
C28_Witness ==
    /\ pc = "failed"
    /\ st # live0.ledger
    /\ disk = live0.ledger
    /\ \E p \in DOMAIN log : log[p].op = "CreateApplicationVersion" /\ log[p].ok
    /\ ~log[Len(log)].ok

----------------------------------------------------------------------------
(* C29 *)

\* the actions planned Update whose application Apply did not find in its
\* listing, and which its loop has reached
MissingUpdates ==
    {i \in DOMAIN plan.Actions :
        /\ plan.Actions[i].Action = "update"
        /\ \A a \in existingByName : a.Name # plan.Actions[i].ApplicationName
        /\ i < idx \/ (i = idx /\ pc = "panic")}

\* C29: when the loop of Apply has reached an Update whose application is no
\* longer live, Apply has returned an error, and no create-version call has
\* been issued for that application.
C29_MissingApplicationIsError ==
    pc \in {"apps", "done", "failed", "panic"} =>
        \A i \in MissingUpdates :
            /\ pc = "failed"
            /\ CallsOf("CreateApplicationVersion", plan.Actions[i].ApplicationName) = {}

----------------------------------------------------------------------------
(* C30 *)

\* the plans CreatePlan may return for that config, live state and ledger
PlansFor(c, currentASGs, allLBs, existing, s) ==
    LET liveNames == {a.Name : a \in currentASGs}
        desiredNames == {c.AutoScalingGroups[i].Name : i \in DOMAIN c.AutoScalingGroups}
    IN {planInfrastructure(currentASGs, allLBs, c, asgOrds, orphanOrd, lbOrds, asgOrd, orphanLBOrds)
          @@ [Actions |-> planApplications(s, existing, {a.Name : a \in existing}, c.Applications).Actions] :
            asgOrds \in [DOMAIN c.AutoScalingGroups -> Perms(IfaceIndexes(c.AutoScalingGroups))],
            orphanOrd \in Perms(liveNames \ desiredNames),
            lbOrds \in [DOMAIN c.LoadBalancers -> Perms(IfaceIndexes(c.LoadBalancers))],
            asgOrd \in Perms(liveNames),
            orphanLBOrds \in [liveNames -> Perms({l.Name : l \in allLBs})]}

\* C30: the plan CreatePlan returned is the only plan a planning run returns
\* for the same config, live state and ledger: the same actions with the same
\* change lists in the same order, for applications, ASGs and LoadBalancers.
C30_PlanningDeterministic ==
    pc = "planned" =>
        PlansFor(cfg, live0.asgs, live0.lbs, live0.apps, live0.ledger) = {plan}

====
